---- MODULE Spec2Model ----
(***************************************************************************)
(* Model of the alpaca-trading-bot engines.                                *)
(*                                                                         *)
(*   engine/engine.py   the modular grid engine (with engine/grid.py,      *)
(*                      engine/risk.py, engine/state.py)                   *)
(*                        one instance   -> Spec                            *)
(*                        two instances  -> SpecFleet                       *)
(*   engine/risk.py     check_buy_allowed as a pure function   -> SpecRisk  *)
(*   engine_readonly.py the monolithic red-candle engine       -> SpecRO    *)
(*                                                                         *)
(* Prices are whole dollars.  None is the absent value of an optional      *)
(* field: a number no price, rung, quantity or bar of the model reaches.   *)
(***************************************************************************)
EXTENDS Integers, Sequences, FiniteSets, TLC

\* ------------------------------------------------------------------ bounds
MaxPrice == 3            \* prices seen by the engine are 1..MaxPrice
MaxPos == 2              \* the broker position is 0..MaxPos shares
MaxTotal == 2            \* buy_count_total is followed up to MaxTotal
MaxDay == 1              \* ET dates are 0..MaxDay
MaxCap == 2              \* the counts and caps given to check_buy_allowed are 0..MaxCap
MaxBar == 2              \* the closed one-minute bars are 1..MaxBar
MaxLadder == 6           \* a group is followed up to MaxLadder buys
MaxWait == 3             \* timeout_sec of wait_for_fill is 0..MaxWait
MaxTick == 2             \* the iterations of main()'s loop are counted up to MaxTick
MaxWorkers == 3          \* the worker processes of report_app.py are 1..MaxWorkers

None == -999
Procs == {1, 2}
Prices == 1..MaxPrice

Max(a, b) == IF a >= b THEN a ELSE b
Min(a, b) == IF a <= b THEN a ELSE b

\* ------------------------------------------------------- engine/grid.py
\* GridState(), the dataclass defaults
GridState == [anchor_price |-> None, last_buy_price |-> None,
              last_trigger_price |-> None, buy_count_in_group |-> 0]

\* a step that counts the buy being decided among the completed ones
current_step_usd_CountsNextBuy(step_start, step_increment, tier_size, buy_count_in_group) ==
    LET tier_size_i == IF tier_size > 0 THEN tier_size ELSE 5
        count == Max(0, buy_count_in_group) + 1
        tier_index == count \div tier_size_i
    IN  step_start + step_increment * tier_index

current_step_usd(step_start, step_increment, tier_size, buy_count_in_group) ==
    LET tier_size_i == IF tier_size > 0 THEN tier_size ELSE 5
        count == Max(0, buy_count_in_group)
        tier_index == count \div tier_size_i
    IN  step_start + step_increment * tier_index

next_trigger_price(gs, c) ==
    IF gs.last_trigger_price = None THEN None
    ELSE gs.last_trigger_price
           - current_step_usd(c.grid_step_start_usd, c.grid_step_increment_usd,
                              c.grid_tier_size, gs.buy_count_in_group)

should_buy_now(price, gs, c) ==
    LET nxt == next_trigger_price(gs, c)
    IN  IF gs.last_trigger_price = None THEN TRUE
        ELSE IF nxt = None THEN TRUE
        ELSE price <= nxt

on_buy_filled(fill_price, gs, c) ==
    [anchor_price |-> IF gs.anchor_price = None THEN fill_price ELSE gs.anchor_price,
     last_trigger_price |->
        IF gs.last_trigger_price = None THEN fill_price
        ELSE gs.last_trigger_price
               - current_step_usd(c.grid_step_start_usd, c.grid_step_increment_usd,
                                  c.grid_tier_size, gs.buy_count_in_group),
     last_buy_price |-> fill_price,
     buy_count_in_group |-> gs.buy_count_in_group + 1]

should_sell_now(price, gs, sell_rise_usd) ==
    IF gs.anchor_price = None THEN FALSE
    ELSE price >= gs.anchor_price + sell_rise_usd

\* a reset that clears the rungs and the count but keeps the anchor
reset_group_KeepsAnchor(gs) == [GridState EXCEPT !.anchor_price = gs.anchor_price]

reset_group(gs) == GridState

\* ------------------------------------------------------- engine/risk.py
RiskDecision(ok, reason) == [ok |-> ok, reason |-> reason]

\* a gate that looks at the per-tick cap before the kill switch
check_buy_allowed_TickFirst(kill_switch, buys_this_tick, max_buys_per_tick, buys_today, max_buys_per_day, order_qty, est_price, max_dollars_per_buy, current_pos_qty, max_position_qty, in_trade_window) ==
    IF max_buys_per_tick > 0 /\ buys_this_tick >= max_buys_per_tick
      THEN RiskDecision(FALSE, "MAX_BUYS_PER_TICK")
    ELSE IF kill_switch THEN RiskDecision(FALSE, "KILL_SWITCH")
    ELSE IF max_buys_per_day > 0 /\ buys_today >= max_buys_per_day
      THEN RiskDecision(FALSE, "MAX_BUYS_PER_DAY")
    ELSE IF max_position_qty > 0 /\ (current_pos_qty + order_qty) > max_position_qty
      THEN RiskDecision(FALSE, "MAX_POSITION_QTY")
    ELSE IF max_dollars_per_buy > 0 /\ est_price * order_qty > max_dollars_per_buy
      THEN RiskDecision(FALSE, "MAX_DOLLARS_PER_BUY")
    ELSE RiskDecision(TRUE, "OK")

\* in_trade_window stands for now_utc, trade_start_et and trade_end_et (whether
\* now is inside the window): arguments "currently not used by this function"
check_buy_allowed(kill_switch, buys_this_tick, max_buys_per_tick, buys_today, max_buys_per_day, order_qty, est_price, max_dollars_per_buy, current_pos_qty, max_position_qty, in_trade_window) ==
    IF kill_switch THEN RiskDecision(FALSE, "KILL_SWITCH")
    ELSE IF max_buys_per_tick > 0 /\ buys_this_tick >= max_buys_per_tick
      THEN RiskDecision(FALSE, "MAX_BUYS_PER_TICK")
    ELSE IF max_buys_per_day > 0 /\ buys_today >= max_buys_per_day
      THEN RiskDecision(FALSE, "MAX_BUYS_PER_DAY")
    ELSE IF max_position_qty > 0 /\ (current_pos_qty + order_qty) > max_position_qty
      THEN RiskDecision(FALSE, "MAX_POSITION_QTY")
    ELSE IF max_dollars_per_buy > 0 /\ est_price * order_qty > max_dollars_per_buy
      THEN RiskDecision(FALSE, "MAX_DOLLARS_PER_BUY")
    ELSE RiskDecision(TRUE, "OK")

\* ------------------------------------------------ engine/config.py: Config
\* The deployments explored.  LiveConfig is load_config's defaults (lines 120-144)
\* with DRY_RUN=false and with GRID_TIER_SIZE=2 and SELL_RISE_USD=1 to fit the
\* model's prices; the others turn on DRY_RUN, the kill switch, or every cap.
LiveConfig == [dry_run |-> FALSE, kill_switch |-> FALSE, order_qty |-> 1,
             max_buys_per_tick |-> 1, max_buys_per_day |-> 0,
             max_dollars_per_buy |-> 0, max_position_qty |-> 0,
             grid_step_start_usd |-> 1, grid_step_increment_usd |-> 1,
             grid_tier_size |-> 2, sell_rise_usd |-> 1]
Configs == { LiveConfig,
             [LiveConfig EXCEPT !.dry_run = TRUE],
             [LiveConfig EXCEPT !.kill_switch = TRUE],
             [LiveConfig EXCEPT !.max_buys_per_tick = 2, !.max_buys_per_day = 2,
                              !.max_position_qty = 2, !.max_dollars_per_buy = 2] }

VARIABLES
    fleet,            \* the engine instances that are deployed
    cfg,              \* Config, loaded once (the same environment for every instance)
    database_url,     \* TRUE: DATABASE_URL set (shared store, leader lock); FALSE: disk
    standby_only,     \* [Procs -> BOOLEAN], STANDBY_ONLY of each instance
    up,               \* [Procs -> BOOLEAN], the process is inside main()'s loop
    conn,             \* [Procs -> {"none","ok","dropped"}], its store connection
    is_leader,        \* [Procs -> BOOLEAN], main()'s local is_leader
    gs,               \* [Procs -> GridState], main()'s local gs
    ctr,              \* [Procs -> [buys_today, buys_today_date, buy_count_total]]
    lockHolder,       \* the session holding the advisory lock, or None
    dbRow,            \* the engine_state row of the symbol (a state document)
    disk,             \* [Procs -> state document], the local state file
    livePos,          \* the broker's position quantity
    today,            \* the ET date of the broker clock
    ev,               \* what the last step did (its inputs and its orders)
    zeroReads,        \* [Procs -> 0..2], the consecutive ticks, up to the last, whose
                      \* read gave quantity 0 while the GridState was not flat
    submitHist,       \* [Procs -> "none"|"submitted"|"overtaken"|"interleaved"]: what
                      \* the orders of the running processes look like from each
    buysOnDate,       \* the buy orders the broker has accepted on the date today,
                      \* followed up to MaxCap + 1 where a daily cap is configured
    riskIn,           \* the arguments of one call of check_buy_allowed
    riskOut,          \* the RiskDecision it returned (reason "PENDING" before the call)
    ro_up,            \* engine_readonly.py: the process is running
    ro_state,         \* its state dict and the locals main() keeps beside it
    ro_store,         \* the state document it finds and persists (file or row)
    ro_bar,           \* the latest closed one-minute bar (None: none yet)
    ro_seen,          \* the bars a tick has fetched and taken past the replay guard
    ro_ev,            \* what its last step did
    g_cfg,            \* engine/grid.py on its own: the ladder settings in force
    g_gs,             \* the GridState the ladder works on
    g_ev,             \* what the last step of the ladder did
    r_label,          \* alpaca_call_with_retry: the call that is wrapped
    r_tries,          \* its tries argument
    r_hist,           \* the outcomes of fn() so far, one for each invocation
    r_result,         \* how the wrapper (and get_position_qty above it) ended
    w_timeout,        \* wait_for_fill: timeout_sec
    w_now,            \* time.time() - start
    w_status,         \* the order status of the last poll ("" before the first)
    w_result,         \* "polling", or what wait_for_fill returned
    m_env,            \* main() as a loop: the environment load_config reads
    m_pc,             \* where main() is
    m_ticks,          \* the iterations of the loop that have begun
    m_orders,         \* the iterations that have submitted an order
    m_exc,            \* the exception the last iteration raised ("none": none)
    t_in,             \* one iteration's SELL and BUY blocks: what they start from
    t_done,           \* the blocks have run
    t_out,            \* the locals they end with, and their orders
    wl_file,          \* report_app.py: the watcher lock file
    wl_pc             \* where each worker is in _acquire_watcher_lock

engineVars == <<fleet, cfg, database_url, standby_only, up, conn, is_leader, gs, ctr,
                lockHolder, dbRow, disk, livePos, today, ev, zeroReads,
                submitHist, buysOnDate>>

riskVars == <<riskIn, riskOut>>
roVars == <<ro_up, ro_state, ro_store, ro_bar, ro_seen, ro_ev>>
gridVars == <<g_cfg, g_gs, g_ev>>
retryVars == <<r_label, r_tries, r_hist, r_result>>
fillVars == <<w_timeout, w_now, w_status, w_result>>
mainVars == <<m_env, m_pc, m_ticks, m_orders, m_exc>>
tickVars == <<t_in, t_done, t_out>>
watchVars == <<wl_file, wl_pc>>
helperVars == <<gridVars, retryVars, fillVars, mainVars, tickVars, watchVars>>

NoDate == -1     \* buys_today_date_et absent from the document (Python None)

\* the state document: load_state_db / load_state_disk return {} when none exists
EmptyDoc == [buy_count_total |-> 0, buys_today_et |-> 0, buys_today_date_et |-> NoDate,
             grid_anchor_price |-> None, grid_last_buy_price |-> None,
             grid_buy_count_in_group |-> 0]

NoCtr == [buys_today |-> 0, buys_today_date |-> NoDate, buy_count_total |-> 0]

\* a step that reads no position and submits nothing.  sell_cond: the tick came
\* to the SELL logic with a position and should_sell_now true (line 478);
\* raised: the submit call of the tick that raised ("sell", "buy" or "none");
\* save_failed: the save at the end of the tick raised; unsaved: the document it
\* was given
Quiet == [proc |-> None, pos |-> "none", reset |-> FALSE, orders |-> <<>>,
          sell_cond |-> FALSE, raised |-> "none", save_failed |-> FALSE,
          unsaved |-> EmptyDoc]

\* ------------------------------------------------------ the brokerage
\* api.get_position: the quantity, the "position does not exist" error when the
\* account is flat, or any other failure (a request that raises, or a quantity
\* that int(float(...)) rejects: both end in the except of get_position_details)
PositionAnswers == { IF livePos = 0 THEN [kind |-> "absent", qty |-> 0]
                                    ELSE [kind |-> "qty", qty |-> livePos],
                     [kind |-> "error", qty |-> 0] }

\* api.submit_order raises, or returns an order that fills at once ("filled") or
\* stays unfilled ("new"; a later fill shows as a change of the position)

RECURSIVE PosAfter(_, _)
PosAfter(orders, lp) ==
    IF orders = <<>> THEN lp
    ELSE LET o == Head(orders)
             lp1 == IF o.status # "filled" THEN lp
                    ELSE IF o.side = "sell" THEN lp - Min(o.qty, lp)
                    ELSE lp + o.qty
         IN  PosAfter(Tail(orders), lp1)

\* ------------------------------------------- engine/engine.py: helpers
\* a position read that treats every failure as flat
get_position_details_ErrorIsFlat(answer) ==
    IF answer.kind = "qty" THEN [qty |-> answer.qty, ok |-> TRUE]
    ELSE [qty |-> 0, ok |-> TRUE]

\* a read of the position whose ok flag is always true
get_position_details_AlwaysOk(answer) == [qty |-> answer.qty, ok |-> TRUE]

get_position_details(answer) ==
    IF answer.kind = "qty" THEN [qty |-> answer.qty, ok |-> TRUE]
    ELSE IF answer.kind = "absent" THEN [qty |-> 0, ok |-> TRUE]
    ELSE [qty |-> None, ok |-> FALSE]

\* the day rollover of main(), lines 427-431
Rolled(c) ==
    IF c.buys_today_date # today
      THEN [c EXCEPT !.buys_today_date = today, !.buys_today = 0]
      ELSE c

\* "If Alpaca is flat, grid memory should be empty", lines 446-452
FlatWithMemory(g, pos_qty) ==
    pos_qty <= 0 /\ (g.anchor_price # None \/ g.last_buy_price # None
                     \/ g.buy_count_in_group > 0)

\* the standby protection of the SELL and BUY blocks, lines 480 and 593
StandbyBlock(ldr) == (~cfg.dry_run) /\ database_url /\ (~ldr)

Order(p, side, qty, status) == [proc |-> p, side |-> side, qty |-> qty, status |-> status]

\* the buy orders among the orders of a tick
NumBuys(orders) == Cardinality({i \in DOMAIN orders : orders[i].side = "buy"})

\* a SELL block that honours the kill switch as the BUY loop does
SellStep_KillSwitchGated(p, L, ldr, price) ==
    IF L.pos_qty > 0 /\ should_sell_now(price, L.gs, cfg.sell_rise_usd)
    THEN IF StandbyBlock(ldr) \/ cfg.kill_switch THEN {L}
         ELSE IF cfg.dry_run
           THEN {[L EXCEPT !.gs = reset_group(L.gs), !.pos_qty = 0]}
         ELSE {[L EXCEPT !.exc = TRUE, !.raised = "sell"]}
              \cup {[L EXCEPT !.orders = Append(@, Order(p, "sell", L.pos_qty, st)),
                              !.gs = reset_group(L.gs), !.pos_qty = 0]
                      : st \in {"filled", "new"}}
    ELSE {L}

\* a SELL block whose DRY_RUN branch submits the order as the live branch does
SellStep_DryRunSubmits(p, L, ldr, price) ==
    IF L.pos_qty > 0 /\ should_sell_now(price, L.gs, cfg.sell_rise_usd)
    THEN IF StandbyBlock(ldr) THEN {L}
         ELSE {[L EXCEPT !.exc = TRUE, !.raised = "sell"]}
              \cup {[L EXCEPT !.orders = Append(@, Order(p, "sell", L.pos_qty, st)),
                              !.gs = reset_group(L.gs), !.pos_qty = 0]
                      : st \in {"filled", "new"}}
    ELSE {L}

\* the SELL block, lines 477-529.  L is the tick's local state; the result is the
\* set of local states the block can end in, one for each answer of the broker.
SellStep(p, L, ldr, price) ==
    IF L.pos_qty > 0 /\ should_sell_now(price, L.gs, cfg.sell_rise_usd)
    THEN IF StandbyBlock(ldr) THEN {L}
         ELSE IF cfg.dry_run
           THEN {[L EXCEPT !.gs = reset_group(L.gs), !.pos_qty = 0]}
         ELSE {[L EXCEPT !.exc = TRUE, !.raised = "sell"]}  \* submit_market_sell raises
              \cup {[L EXCEPT !.orders = Append(@, Order(p, "sell", L.pos_qty, st)),
                              !.gs = reset_group(L.gs), !.pos_qty = 0]
                      : st \in {"filled", "new"}}
    ELSE {L}

\* a loop that leaves the per-tick bound to the risk gate
buy_loop_continues_Unbounded(L) == ~cfg.kill_switch

\* the condition of the while, line 534
buy_loop_continues(L) ==
    (~cfg.kill_switch) /\ L.buys_this_tick < cfg.max_buys_per_tick

\* the BUY loop, lines 531-661, from local state L on
RECURSIVE BuyLoop(_, _, _, _)
BuyLoop(p, L, ldr, price) ==
    IF L.exc \/ ~buy_loop_continues(L) THEN {L}
    ELSE IF ~should_buy_now(price, L.gs, cfg) THEN {L}
    ELSE LET decision ==
               check_buy_allowed(cfg.kill_switch, L.buys_this_tick, cfg.max_buys_per_tick,
                                 L.ctr.buys_today, cfg.max_buys_per_day, cfg.order_qty,
                                 price, cfg.max_dollars_per_buy, Max(0, L.pos_qty),
                                 cfg.max_position_qty, TRUE)
             L1 == [L EXCEPT !.ctr.buy_count_total = @ + 1, !.ctr.buys_today = @ + 1,
                             !.buys_this_tick = @ + 1]
         IN  IF ~decision.ok THEN {L}
             ELSE IF StandbyBlock(ldr) THEN {L}
             ELSE IF cfg.dry_run
               THEN BuyLoop(p, [L1 EXCEPT !.gs = on_buy_filled(price, L.gs, cfg)],
                            ldr, price)
             ELSE {[L1 EXCEPT !.exc = TRUE, !.raised = "buy"]}  \* submit_market_buy raises
                  \cup UNION { BuyLoop(p, [L1 EXCEPT
                                  !.orders = Append(@, Order(p, "buy", cfg.order_qty, st)),
                                  !.gs = on_buy_filled(price, L.gs, cfg)],
                                       ldr, price)
                               : st \in {"filled", "new"} }

\* a save that reports the failure and yet leaves the document in the row
save_state_db_WritesAnyway(c, row, doc) ==
    IF c = "dropped" THEN [raises |-> TRUE, row |-> doc]
    ELSE [raises |-> FALSE, row |-> doc]

\* save_state_db (engine/state.py, lines 101-111) on connection state c: the
\* row afterwards, and whether the call raised
save_state_db(c, row, doc) ==
    IF c = "dropped" THEN [raises |-> TRUE, row |-> row]
    ELSE [raises |-> FALSE, row |-> doc]

\* the document written by "Persist state", lines 663-684
DocOf(g, c) ==
    [buy_count_total |-> c.buy_count_total, buys_today_et |-> c.buys_today,
     buys_today_date_et |-> c.buys_today_date,
     grid_anchor_price |-> g.anchor_price, grid_last_buy_price |-> g.last_buy_price,
     grid_buy_count_in_group |-> g.buy_count_in_group]

\* --------------------------------------------- engine/engine.py: main()
\* check_buy_allowed not under study: no call made
RiskIdle ==
    /\ riskIn = [kill_switch |-> FALSE, buys_this_tick |-> 0, max_buys_per_tick |-> 0,
                 buys_today |-> 0, max_buys_per_day |-> 0, order_qty |-> 1,
                 est_price |-> 1, max_dollars_per_buy |-> 0, current_pos_qty |-> 0,
                 max_position_qty |-> 0, in_trade_window |-> TRUE]
    /\ riskOut = RiskDecision(FALSE, "IDLE")

\* the state document of engine_readonly.py: the payload of lines 1519-1533,
\* with the defaults of lines 1060-1066 when nothing is stored
RoEmptyDoc == [last_bar_ts |-> None, group_anchor_close |-> None,
               last_red_buy_close |-> None, buy_count_total |-> 0,
               group_buy_count |-> 0, strategy_owned_qty |-> 0,
               buys_today_et |-> 0, buys_today_date_et |-> NoDate]

\* a step of the environment: no bar taken up (0), nothing reset
RoQuiet == [kind |-> "none", bar |-> None, reset |-> FALSE, zero_reads |-> 0]

\* engine_readonly.py not deployed
RoIdle ==
    /\ ro_up = FALSE
    /\ ro_state = RoEmptyDoc
    /\ ro_store = RoEmptyDoc
    /\ ro_bar = None
    /\ ro_seen = {}
    /\ ro_ev = RoQuiet

\* engine/grid.py not exercised on its own
GridIdle ==
    /\ g_cfg = [grid_step_start_usd |-> 1, grid_step_increment_usd |-> 1,
                grid_tier_size |-> 5, sell_rise_usd |-> 2]
    /\ g_gs = GridState
    /\ g_ev = [kind |-> "idle", price |-> None, n |-> 0, step |-> 0]

\* no wrapped broker call under way
RetryIdle ==
    /\ r_label = "none"
    /\ r_tries = 0
    /\ r_hist = <<>>
    /\ r_result = [kind |-> "idle"]

\* no order being waited for
FillIdle ==
    /\ w_timeout = 0
    /\ w_now = 0
    /\ w_status = ""
    /\ w_result = "idle"

\* a variable of the environment that is not set
NoEnv == "(unset)"

\* main() as a loop not under study
MainIdle ==
    /\ m_env = [key_id |-> "k", secret_key |-> "s", base_url |-> NoEnv,
                dry_run |-> NoEnv, live_trading_confirm |-> NoEnv]
    /\ m_pc = "idle"
    /\ m_ticks = 0
    /\ m_orders = 0
    /\ m_exc = "none"

\* the local state of an iteration before its SELL block, lines 439-476 and 532;
\* sleep is the time.sleep the iteration ends with ("none": not there yet)
TickLocals(g, pos_qty, buys_today) ==
    [gs |-> g,
     ctr |-> [buys_today |-> buys_today, buys_today_date |-> 0, buy_count_total |-> 0],
     pos_qty |-> pos_qty, buys_this_tick |-> 0, orders |-> <<>>, exc |-> FALSE,
     raised |-> "none", sleep |-> "none"]

\* the SELL and BUY blocks not exercised on their own
TickIdle ==
    /\ t_in = [gs |-> GridState, pos_qty |-> 0, price |-> 1, buys_today |-> 0,
               ldr |-> TRUE, market_is_open |-> TRUE, pos_ok |-> TRUE]
    /\ t_done = FALSE
    /\ t_out = TickLocals(GridState, 0, 0)

\* the worker processes of the report application (gunicorn -w N)
Workers == 1..MaxWorkers

\* no file at WATCHER_LOCK_PATH.  A file is [by, written]: the process that
\* created it, and whether its pid has been written into it yet.
NoLockFile == [by |-> None, written |-> FALSE]

\* report_app.py not started
WatchIdle ==
    /\ wl_file = NoLockFile
    /\ wl_pc = [w \in Workers |-> "idle"]

HelpersIdle == GridIdle /\ RetryIdle /\ FillIdle /\ MainIdle /\ TickIdle /\ WatchIdle

\* before any process has started: nothing stored, nothing held, a flat account
EngineInit ==
    /\ database_url \in BOOLEAN
    /\ up = [p \in Procs |-> FALSE]
    /\ conn = [p \in Procs |-> "none"]
    /\ is_leader = [p \in Procs |-> FALSE]
    /\ gs = [p \in Procs |-> GridState]
    /\ ctr = [p \in Procs |-> NoCtr]
    /\ lockHolder = None
    /\ dbRow = EmptyDoc
    /\ disk = [p \in Procs |-> EmptyDoc]
    /\ livePos = 0
    /\ today = 0
    /\ ev = Quiet
    /\ zeroReads = [p \in Procs |-> 0]
    /\ submitHist = [p \in Procs |-> "none"]
    /\ buysOnDate = 0

\* engine/engine.py not deployed
EngineIdle ==
    /\ fleet = {}
    /\ cfg = LiveConfig
    /\ standby_only = [p \in Procs |-> FALSE]
    /\ EngineInit
    /\ database_url = FALSE

\* one instance, under every deployment of Configs; with a store it may be
\* standby-only (without one STANDBY_ONLY is not read, lines 337-351)
Init ==
    /\ fleet = {1}
    /\ cfg \in Configs
    /\ standby_only \in {[p \in Procs |-> FALSE], [p \in Procs |-> p = 1]}
    /\ EngineInit
    /\ standby_only[1] => database_url
    /\ RiskIdle
    /\ RoIdle
    /\ HelpersIdle

\* one instance, live or with every cap set, with or without a store, and with
\* STANDBY_ONLY either way in both storage modes
OperatedInit ==
    /\ fleet = {1}
    /\ cfg \in {LiveConfig,
                [LiveConfig EXCEPT !.max_buys_per_tick = 2, !.max_buys_per_day = 2,
                                   !.max_position_qty = 2, !.max_dollars_per_buy = 2]}
    /\ standby_only \in {[p \in Procs |-> FALSE], [p \in Procs |-> p = 1]}
    /\ EngineInit
    /\ RiskIdle
    /\ RoIdle
    /\ HelpersIdle

\* one instance with DRY_RUN on (the default of load_config), without caps or
\* with every cap set, in both storage modes, standby-only or not
DryInit ==
    /\ fleet = {1}
    /\ cfg \in {[LiveConfig EXCEPT !.dry_run = TRUE],
                [LiveConfig EXCEPT !.dry_run = TRUE,
                                   !.max_buys_per_tick = 2, !.max_buys_per_day = 2,
                                   !.max_position_qty = 2, !.max_dollars_per_buy = 2]}
    /\ standby_only \in {[p \in Procs |-> FALSE], [p \in Procs |-> p = 1]}
    /\ EngineInit
    /\ RiskIdle
    /\ RoIdle
    /\ HelpersIdle

\* two instances under the defaults, both candidates for leadership
FleetInit ==
    /\ fleet = Procs
    /\ cfg = LiveConfig
    /\ standby_only = [p \in Procs |-> FALSE]
    /\ EngineInit
    /\ RiskIdle
    /\ RoIdle
    /\ HelpersIdle

\* the GridState main() builds from a loaded document, lines 379-384: the
\* constructor is given anchor_price, last_buy_price and buy_count_in_group, and
\* last_trigger_price keeps its default (the legacy keys grid_last_trigger and
\* grid_tier_buys_used are in no document this engine writes)
GridOfDoc(doc) ==
    [anchor_price |-> doc.grid_anchor_price,
     last_buy_price |-> doc.grid_last_buy_price,
     last_trigger_price |-> None,
     buy_count_in_group |-> doc.grid_buy_count_in_group]

\* the counters main() takes from a loaded document, lines 362-365
CountersOfDoc(doc) ==
    [buys_today |-> doc.buys_today_et,
     buys_today_date |-> doc.buys_today_date_et,
     buy_count_total |-> doc.buy_count_total]

\* two instances on a shared store, both candidates for leadership, under the
\* defaults with MAX_BUYS_PER_DAY=1 and MAX_POSITION_QTY=1
HandoffInit ==
    /\ fleet = Procs
    /\ cfg = [LiveConfig EXCEPT !.max_buys_per_day = 1, !.max_position_qty = 1]
    /\ standby_only = [p \in Procs |-> FALSE]
    /\ EngineInit
    /\ database_url
    /\ RiskIdle
    /\ RoIdle
    /\ HelpersIdle

\* two instances on a shared store with the kill switch engaged (the leader
\* block of the loop without the trading): both candidates for leadership, or
\* the first standby-only
LockInit ==
    /\ fleet = Procs
    /\ cfg = [LiveConfig EXCEPT !.kill_switch = TRUE]
    /\ standby_only \in {[p \in Procs |-> FALSE], [p \in Procs |-> p = 1]}
    /\ EngineInit
    /\ database_url
    /\ RiskIdle
    /\ RoIdle
    /\ HelpersIdle

\* try_acquire_leader_lock (engine/state.py): pg_try_advisory_lock on p's session
try_acquire_leader_lock(p) == lockHolder = None \/ lockHolder = p

\* main() up to the loop, lines 332-384: connect, lock, load, roll over, build gs
Boot(p) ==
    /\ p \in fleet /\ ~up[p]
    /\ LET doc == IF database_url THEN dbRow ELSE disk[p]
           ldr == IF database_url
                    THEN IF standby_only[p] THEN FALSE ELSE try_acquire_leader_lock(p)
                    ELSE TRUE
           c0 == CountersOfDoc(doc)
           c1 == Rolled(c0)
           saved == [doc EXCEPT !.buys_today_date_et = c1.buys_today_date,
                                !.buys_today_et = c1.buys_today]
       IN  /\ up' = [up EXCEPT ![p] = TRUE]
           /\ conn' = [conn EXCEPT ![p] = IF database_url THEN "ok" ELSE "none"]
           /\ is_leader' = [is_leader EXCEPT ![p] = ldr]
           /\ lockHolder' = IF database_url /\ ldr THEN p ELSE lockHolder
           /\ ctr' = [ctr EXCEPT ![p] = c1]
           /\ gs' = [gs EXCEPT ![p] = GridOfDoc(doc)]
           /\ dbRow' = IF database_url /\ c1 # c0 THEN saved ELSE dbRow
           /\ disk' = IF (~database_url) /\ c1 # c0 THEN [disk EXCEPT ![p] = saved] ELSE disk
    /\ ev' = Quiet
    /\ zeroReads' = [zeroReads EXCEPT ![p] = 0]
    /\ submitHist' = [submitHist EXCEPT ![p] = "none"]
    /\ UNCHANGED <<fleet, cfg, database_url, standby_only, livePos, today>>
    /\ UNCHANGED <<riskVars, roVars, helperVars>>
    /\ UNCHANGED buysOnDate

\* lines 406-417 with is_leader false and the lock not to be had: sleep, continue
TickStandby(p) ==
    /\ up[p] /\ database_url /\ ~standby_only[p] /\ ~is_leader[p]
    /\ conn[p] = "ok" /\ ~try_acquire_leader_lock(p)
    /\ ev' = Quiet
    /\ UNCHANGED <<fleet, cfg, database_url, standby_only, up, conn, is_leader, gs, ctr,
                   lockHolder, dbRow, disk, livePos, today, zeroReads,
                   submitHist>>
    /\ UNCHANGED <<riskVars, roVars, helperVars>>
    /\ UNCHANGED buysOnDate

\* lines 406-409 on a dead connection: the query raises, line 688 catches it
TickLockError(p) ==
    /\ up[p] /\ database_url /\ ~standby_only[p] /\ ~is_leader[p]
    /\ conn[p] = "dropped"
    /\ ev' = Quiet
    /\ UNCHANGED <<fleet, cfg, database_url, standby_only, up, conn, is_leader, gs, ctr,
                   lockHolder, dbRow, disk, livePos, today, zeroReads,
                   submitHist>>
    /\ UNCHANGED <<riskVars, roVars, helperVars>>
    /\ UNCHANGED buysOnDate

\* the tick goes past the leader block: p is leader, or acquires the lock now,
\* or runs without a store, or is standby-only
PastLeaderBlock(p) ==
    /\ up[p]
    /\ (database_url /\ ~standby_only[p] /\ ~is_leader[p])
         => (conn[p] = "ok" /\ try_acquire_leader_lock(p))

\* a loop that asks for the lock at startup only
AcquiresNow_AtStartOnly(p) == FALSE

AcquiresNow(p) == database_url /\ ~standby_only[p] /\ ~is_leader[p]

\* how a history of submissions changes when p submits
Submitted(p) ==
    [q \in Procs |->
        IF q = p THEN IF submitHist[p] \in {"overtaken", "interleaved"}
                        THEN "interleaved" ELSE "submitted"
        ELSE IF submitHist[q] = "submitted" THEN "overtaken" ELSE submitHist[q]]


\* what the tick has in hand after the leader block and the clock, lines 406-431
LeaderAfter(p) == IF AcquiresNow(p) THEN TRUE ELSE is_leader[p]

TickHead(p) ==
    /\ PastLeaderBlock(p)
    /\ is_leader' = [is_leader EXCEPT ![p] = LeaderAfter(p)]
    /\ lockHolder' = IF AcquiresNow(p) THEN p ELSE lockHolder
    /\ UNCHANGED <<fleet, cfg, database_url, standby_only, up, conn, today>>
    /\ UNCHANGED <<riskVars, roVars, helperVars>>

\* safe_get_clock raises after its retries (line 420); line 688 catches it
TickClockError(p) ==
    /\ TickHead(p)
    /\ ev' = Quiet
    /\ UNCHANGED <<gs, ctr, dbRow, disk, livePos, zeroReads, submitHist>>
    /\ UNCHANGED buysOnDate

\* get_last_price returns None (lines 433-437): sleep, continue
TickNoPrice(p) ==
    /\ TickHead(p)
    /\ ev' = Quiet
    /\ ctr' = [ctr EXCEPT ![p] = Rolled(ctr[p])]
    /\ UNCHANGED <<gs, dbRow, disk, livePos, zeroReads, submitHist>>
    /\ UNCHANGED buysOnDate

\* lines 439-661 on a successful position read: the flat check, SELL, BUY
TickBody(p, price, answer) ==
    LET ldr == LeaderAfter(p)
        pos == get_position_details(answer)
        g1 == IF FlatWithMemory(gs[p], pos.qty) THEN reset_group(gs[p]) ELSE gs[p]
        L0 == [gs |-> g1, ctr |-> Rolled(ctr[p]), pos_qty |-> pos.qty,
               buys_this_tick |-> 0, orders |-> <<>>, exc |-> FALSE, raised |-> "none"]
    IN  UNION { BuyLoop(p, L1, ldr, price) : L1 \in SellStep(p, L0, ldr, price) }

\* the rest of the iteration, lines 439-690, with a price in hand
Tick(p) ==
    /\ TickHead(p)
    /\ \E market_is_open \in BOOLEAN, price \in Prices, answer \in PositionAnswers :
        LET c1 == Rolled(ctr[p])
            pos == get_position_details(answer)
            reset == FlatWithMemory(gs[p], pos.qty)
            g1 == IF reset THEN reset_group(gs[p]) ELSE gs[p]
            zr == [zeroReads EXCEPT ![p] = IF reset THEN Min(2, @ + 1) ELSE 0]
        IN  IF ~pos.ok
              THEN \* POSITION_UNAVAILABLE, lines 441-444
                   /\ market_is_open /\ price = 1
                   /\ ev' = [Quiet EXCEPT !.proc = p, !.pos = answer.kind]
                   /\ ctr' = [ctr EXCEPT ![p] = c1]
                   /\ zeroReads' = [zeroReads EXCEPT ![p] = 0]
                   /\ UNCHANGED <<gs, dbRow, disk, livePos, submitHist, buysOnDate>>
            ELSE IF ~market_is_open
              THEN \* MARKET_CLOSED, lines 471-475
                   /\ price = 1
                   /\ ev' = [Quiet EXCEPT !.proc = p, !.pos = answer.kind, !.reset = reset]
                   /\ ctr' = [ctr EXCEPT ![p] = c1]
                   /\ gs' = [gs EXCEPT ![p] = g1]
                   /\ zeroReads' = zr
                   /\ UNCHANGED <<dbRow, disk, livePos, submitHist, buysOnDate>>
            ELSE \E L2 \in TickBody(p, price, answer) :
                 LET saved == save_state_db(conn[p], dbRow, DocOf(L2.gs, L2.ctr)) IN
                 /\ L2.ctr.buy_count_total <= MaxTotal
                 /\ PosAfter(L2.orders, livePos) <= MaxPos
                 /\ ev' = [proc |-> p, pos |-> answer.kind, reset |-> reset,
                           orders |-> L2.orders,
                           sell_cond |-> pos.qty > 0
                                           /\ should_sell_now(price, g1, cfg.sell_rise_usd),
                           raised |-> L2.raised,
                           save_failed |-> database_url /\ (~L2.exc) /\ saved.raises,
                           unsaved |-> IF database_url /\ (~L2.exc) /\ saved.raises
                                         THEN DocOf(L2.gs, L2.ctr) ELSE EmptyDoc]
                 /\ ctr' = [ctr EXCEPT ![p] = L2.ctr]
                 /\ gs' = [gs EXCEPT ![p] = L2.gs]
                 /\ zeroReads' = zr
                 /\ livePos' = PosAfter(L2.orders, livePos)
                 /\ buysOnDate' = IF cfg.max_buys_per_day > 0
                                    THEN Min(MaxCap + 1, buysOnDate + NumBuys(L2.orders))
                                    ELSE buysOnDate
                 /\ submitHist' = IF L2.orders # <<>> THEN Submitted(p) ELSE submitHist
                 /\ dbRow' = IF database_url /\ ~L2.exc THEN saved.row ELSE dbRow
                 /\ disk' = IF (~database_url) /\ ~L2.exc
                               THEN [disk EXCEPT ![p] = DocOf(L2.gs, L2.ctr)] ELSE disk

\* the process dies; its session ends and the store releases its lock
Crash(p) ==
    /\ up[p]
    /\ up' = [up EXCEPT ![p] = FALSE]
    /\ conn' = [conn EXCEPT ![p] = "none"]
    /\ is_leader' = [is_leader EXCEPT ![p] = FALSE]
    /\ gs' = [gs EXCEPT ![p] = GridState]
    /\ ctr' = [ctr EXCEPT ![p] = NoCtr]
    /\ lockHolder' = IF lockHolder = p THEN None ELSE lockHolder
    /\ zeroReads' = [zeroReads EXCEPT ![p] = 0]
    /\ submitHist' = [q \in Procs |->
                         IF q = p THEN "none"
                         ELSE IF submitHist[q] = "overtaken" THEN "submitted"
                         ELSE submitHist[q]]
    /\ ev' = Quiet
    /\ UNCHANGED <<fleet, cfg, database_url, standby_only, dbRow, disk, livePos, today>>
    /\ UNCHANGED <<riskVars, roVars, helperVars>>
    /\ UNCHANGED buysOnDate

\* the connection of a running process drops; the store releases its lock
ConnDrop(p) ==
    /\ up[p] /\ conn[p] = "ok"
    /\ conn' = [conn EXCEPT ![p] = "dropped"]
    /\ lockHolder' = IF lockHolder = p THEN None ELSE lockHolder
    /\ ev' = Quiet
    /\ UNCHANGED <<fleet, cfg, database_url, standby_only, up, is_leader, gs, ctr, dbRow, disk,
                   livePos, today, zeroReads, submitHist>>
    /\ UNCHANGED <<riskVars, roVars, helperVars>>
    /\ UNCHANGED buysOnDate

\* the account changes outside the engine (manual trade, another strategy)
ExternalTrade ==
    /\ \E q \in 0..MaxPos : q # livePos /\ livePos' = q
    /\ ev' = Quiet
    /\ ro_ev' = RoQuiet
    /\ UNCHANGED <<fleet, cfg, database_url, standby_only, up, conn, is_leader, gs, ctr,
                   lockHolder, dbRow, disk, today, zeroReads, submitHist>>
    /\ UNCHANGED <<riskVars, ro_up, ro_state, ro_store, ro_bar, ro_seen, helperVars>>
    /\ UNCHANGED buysOnDate

\* the ET date changes
NewDay ==
    /\ today < MaxDay
    /\ today' = today + 1
    /\ buysOnDate' = 0
    /\ ev' = Quiet
    /\ ro_ev' = RoQuiet
    /\ UNCHANGED <<fleet, cfg, database_url, standby_only, up, conn, is_leader, gs, ctr,
                   lockHolder, dbRow, disk, livePos, zeroReads, submitHist>>
    /\ UNCHANGED <<riskVars, ro_up, ro_state, ro_store, ro_bar, ro_seen, helperVars>>

\* the operator of the live deployment sets KILL_SWITCH=true while no process
\* runs; the next start loads it (load_config reads the environment once)
EngageKillSwitch ==
    /\ \A p \in Procs : ~up[p]
    /\ cfg = LiveConfig
    /\ cfg' = [cfg EXCEPT !.kill_switch = TRUE]
    /\ ev' = Quiet
    /\ UNCHANGED <<fleet, database_url, standby_only, up, conn, is_leader, gs, ctr,
                   lockHolder, dbRow, disk, livePos, today, zeroReads, submitHist>>
    /\ UNCHANGED <<riskVars, roVars, helperVars>>
    /\ UNCHANGED buysOnDate

\* one instance never finds the lock taken
Next ==
    \/ \E p \in Procs : Boot(p)
    \/ \E p \in Procs : TickClockError(p)
    \/ \E p \in Procs : TickNoPrice(p)
    \/ \E p \in Procs : Tick(p)
    \/ \E p \in Procs : Crash(p)
    \/ \E p \in Procs : ConnDrop(p)
    \/ ExternalTrade
    \/ NewDay

\* one trading day of one instance under the operator's switches
OperatedNext ==
    \/ \E p \in Procs : Boot(p)
    \/ \E p \in Procs : TickClockError(p)
    \/ \E p \in Procs : TickNoPrice(p)
    \/ \E p \in Procs : Tick(p)
    \/ \E p \in Procs : Crash(p)
    \/ \E p \in Procs : ConnDrop(p)
    \/ ExternalTrade
    \/ EngageKillSwitch

\* one trading day of one instance in DRY_RUN
DryNext ==
    \/ \E p \in Procs : Boot(p)
    \/ \E p \in Procs : TickClockError(p)
    \/ \E p \in Procs : TickNoPrice(p)
    \/ \E p \in Procs : Tick(p)
    \/ \E p \in Procs : Crash(p)
    \/ \E p \in Procs : ConnDrop(p)
    \/ ExternalTrade

FleetNext ==
    \/ \E p \in Procs : Boot(p)
    \/ \E p \in Procs : TickStandby(p)
    \/ \E p \in Procs : TickLockError(p)
    \/ \E p \in Procs : TickNoPrice(p)
    \/ \E p \in Procs : Tick(p)
    \/ \E p \in Procs : Crash(p)
    \/ \E p \in Procs : ConnDrop(p)

vars == <<engineVars, riskVars, roVars, helperVars>>

Spec == Init /\ [][Next]_vars

SpecFleet == FleetInit /\ [][FleetNext]_vars

SpecOperated == OperatedInit /\ [][OperatedNext]_vars

SpecDry == DryInit /\ [][DryNext]_vars

SpecHandoff == HandoffInit /\ [][FleetNext]_vars

\* one iteration of the loop of p, whichever way it goes
Poll(p) == TickStandby(p) \/ TickLockError(p) \/ TickNoPrice(p) \/ Tick(p)

\* the fleet, and the account changing under it
LockNext == FleetNext \/ ExternalTrade

SpecLock == LockInit /\ [][LockNext]_vars

\* every running process comes to its next iteration: the sleeps of the loop
\* (standby_poll_sec, poll_sec, the 5 seconds of the handler) all return
SpecLockLive == SpecLock /\ \A p \in Procs : WF_vars(Poll(p))

\* ---------------------------------------------- engine/engine.py: claims
\* C1: at no time do two different engine processes both submit orders for the
\* symbol: no running process submits an order, sees another running process
\* submit one, and then submits again.
C1_LeaderExclusivity == \A p \in Procs : submitHist[p] # "interleaved"

\* C2: with the shared store deployed, a step that submits an order is taken by
\* the process that holds the leader lock at that moment, also after its
\* connection has dropped and the store has released the lock.
C2_SubmitterHoldsLock == (database_url /\ ev.orders # <<>>) => lockHolder = ev.proc

C4_ResetNeedsTwoReads == ev.reset => zeroReads[ev.proc] >= 2

\* C9: every sell order is for min(owned quantity, live position quantity),
\* the owned quantity being what the buys of the current group have ordered:
\* buy_count_in_group buys of order_qty shares each.
C9_SellsOwnedOnly ==
    [][\A i \in DOMAIN ev'.orders :
          ev'.orders[i].side = "sell"
            => ev'.orders[i].qty
                 = Min(gs[ev'.proc].buy_count_in_group * cfg.order_qty, livePos)]_vars

\* C10: a tick none of whose buy orders is known to be filled (status "new")
\* does not advance the ladder.
C10_UncertainFillNotAssumed ==
    [][(/\ ev'.orders # <<>>
        /\ \A i \in DOMAIN ev'.orders :
              ev'.orders[i].side = "buy" /\ ev'.orders[i].status = "new")
         => gs'[ev'.proc].buy_count_in_group <= gs[ev'.proc].buy_count_in_group]_vars

\* C15: outside DRY_RUN, a tick of a leader (or of a process without a store)
\* that comes to the SELL logic with a position and the sell condition true
\* submits the sell first, whatever the kill switch, the daily, position, dollar
\* and per-tick caps are: the sell order is accepted, or its submission raises.
C15_SellNotGated ==
    (ev.sell_cond /\ ~cfg.dry_run /\ is_leader[ev.proc])
      => \/ ev.orders # <<>> /\ ev.orders[1].side = "sell"
         \/ ev.raised = "sell"

\* a sell was accepted with the kill switch engaged
C15_Witness ==
    /\ ev.sell_cond
    /\ cfg.kill_switch
    /\ ev.orders # <<>>
    /\ ev.orders[1].side = "sell"

\* C16: a process configured as standby-only never holds the leader lock and
\* never has an order accepted by the broker, with a shared database and with
\* local disk alike.
C16_StandbyOnlyInert ==
    \A p \in Procs :
        standby_only[p] => (lockHolder # p /\ (ev.proc = p => ev.orders = <<>>))

\* C20: every tick in which a buy or a sell was executed (an order accepted by
\* the broker) ends with the state saved: the stored document is the one the
\* tick's GridState and counters give.
C20_TradeTickSaves ==
    ev.orders # <<>>
      => (IF database_url THEN dbRow ELSE disk[ev.proc])
            = DocOf(gs[ev.proc], ctr[ev.proc])

\* C24: when the save at the end of a tick fails, the process stays in its loop,
\* nothing is persisted, and the GridState and the counters in memory are the
\* ones the tick had built when it came to the save.
C24_FailedSaveKeepsMemory ==
    [][ev'.save_failed
         => /\ up'[ev'.proc]
            /\ dbRow' = dbRow
            /\ DocOf(gs'[ev'.proc], ctr'[ev'.proc]) = ev'.unsaved]_vars

\* a tick has bought, its save has failed, and the buy is in memory only
C24_Witness ==
    /\ ev.save_failed
    /\ ev.orders # <<>> /\ ev.orders[1].side = "buy"
    /\ gs[ev.proc].buy_count_in_group > dbRow.grid_buy_count_in_group
    /\ ctr[ev.proc].buys_today >= 1

\* C28: with a positive daily cap, the buys executed on one ET date never exceed
\* the cap, whatever the ticks, sells, flat resets and restarts of that date.
C28_DailyCap ==
    cfg.max_buys_per_day > 0 => buysOnDate <= cfg.max_buys_per_day

\* C30: a tick whose only order is a sell resets the GridState to FLAT when
\* the sell was executed and leaves it as it was when the sell was accepted but
\* not filled; a tick whose sell submission raised leaves it as it was.
C30_SellReset ==
    [][/\ (Len(ev'.orders) = 1 /\ ev'.orders[1].side = "sell")
            => gs'[ev'.proc] = IF ev'.orders[1].status = "filled" THEN GridState
                               ELSE gs[ev'.proc]
       /\ ev'.raised = "sell" => gs'[ev'.proc] = gs[ev'.proc]]_vars

\* the step of grid.py for a GridState under the configuration in force
StepOf(g) ==
    current_step_usd(cfg.grid_step_start_usd, cfg.grid_step_increment_usd,
                     cfg.grid_tier_size, g.buy_count_in_group)

\* a live tick that kept its GridState through the flat check and the SELL
\* logic and had one buy accepted, from a GridState whose anchor was present
FurtherBuy ==
    /\ ~cfg.dry_run
    /\ ~ev'.reset
    /\ Len(ev'.orders) = 1 /\ ev'.orders[1].side = "buy"
    /\ gs[ev'.proc].anchor_price # None

\* C31: a further buy of a group (anchor present) fires only at a price at or
\* below last_trigger_price - step(buy_count_in_group), and leaves
\* last_trigger_price lower by exactly that step and buy_count_in_group higher
\* by exactly 1.
C31_LadderBuyRule ==
    [][FurtherBuy
         => LET g == gs[ev'.proc]
                h == gs'[ev'.proc]
            IN  /\ h.last_buy_price <= g.last_trigger_price - StepOf(g)
                /\ h.last_trigger_price = g.last_trigger_price - StepOf(g)
                /\ h.buy_count_in_group = g.buy_count_in_group + 1]_vars

\* the same rule for the further buys whose reference rung is present
C31_RuleWithRungPresent ==
    [][(FurtherBuy /\ gs[ev'.proc].last_trigger_price # None)
         => LET g == gs[ev'.proc]
                h == gs'[ev'.proc]
            IN  /\ h.last_buy_price <= g.last_trigger_price - StepOf(g)
                /\ h.last_trigger_price = g.last_trigger_price - StepOf(g)
                /\ h.buy_count_in_group = g.buy_count_in_group + 1]_vars

\* the document a start of process p would load
StoredDoc(p) == IF database_url THEN dbRow ELSE disk[p]

\* the last step was a tick of a running process that ended with its save, and
\* the stored document is the one it wrote
TickSaved ==
    /\ ev.proc # None
    /\ ev.pos \in {"qty", "absent"}
    /\ up[ev.proc]
    /\ ~ev.save_failed
    /\ StoredDoc(ev.proc) = DocOf(gs[ev.proc], ctr[ev.proc])

\* C32: the document saved at the end of a tick, loaded at the next start,
\* gives the GridState and the counters the tick ended with, and the restarted
\* engine takes the same buy and sell decisions at every price.
C32_RoundTrip ==
    TickSaved
      => LET p == ev.proc
             loaded == GridOfDoc(StoredDoc(p))
         IN  /\ loaded = gs[p]
             /\ CountersOfDoc(StoredDoc(p)) = ctr[p]
             /\ \A price \in Prices :
                   /\ should_buy_now(price, loaded, cfg) = should_buy_now(price, gs[p], cfg)
                   /\ should_sell_now(price, loaded, cfg.sell_rise_usd)
                        = should_sell_now(price, gs[p], cfg.sell_rise_usd)

\* C39: a tick whose only submission was a buy that raised leaves the
\* GridState as it was and the counters as the day rollover left them:
\* buy_count_total and buys_today do not count the failed buy.
C39_FailedBuyNotCounted ==
    [][(ev'.raised = "buy" /\ ev'.orders = <<>> /\ ~ev'.reset)
         => /\ gs'[ev'.proc] = gs[ev'.proc]
            /\ ctr'[ev'.proc] = Rolled(ctr[ev'.proc])]_vars

\* the part of C39 about the GridState alone
C39_FailedBuyKeepsGrid ==
    [][(ev'.raised = "buy" /\ ev'.orders = <<>> /\ ~ev'.reset)
         => gs'[ev'.proc] = gs[ev'.proc]]_vars

\* C40: with DRY_RUN on, no step of the engine has an order accepted by the
\* broker or raises in a submission, and no step of a process changes the
\* account's position, whatever the storage mode, STANDBY_ONLY, the prices and
\* the positions are.
C40_DryRunNeverTrades ==
    [][cfg.dry_run
         => /\ ev'.orders = <<>>
            /\ ev'.raised = "none"
            /\ ev'.proc # None => livePos' = livePos]_vars

\* a DRY_RUN tick has come to the SELL logic with a position and the sell
\* condition true after simulated buys, and has bought again in simulation
C40_Witness ==
    /\ cfg.dry_run
    /\ ev.sell_cond
    /\ ctr[ev.proc].buy_count_total >= 2
    /\ gs[ev.proc].buy_count_in_group = 1
    /\ livePos > 0

\* the step is a tick in which the running process p went from standby to leader
Promoted(p) == up[p] /\ ~is_leader[p] /\ is_leader'[p] /\ ev'.proc = p

\* C37: the tick in which a standby becomes leader does not put older state in
\* the store than the store held: buy_count_total does not go down, buys_today
\* of the same date does not go down, and, unless the tick sold or found the
\* account flat, neither does the number of buys of the group.
C37_HandoffKeepsState ==
    [][\A p \in Procs :
          Promoted(p)
            => /\ dbRow'.buy_count_total >= dbRow.buy_count_total
               /\ (dbRow'.buys_today_date_et = dbRow.buys_today_date_et
                     => dbRow'.buys_today_et >= dbRow.buys_today_et)
               /\ (NumBuys(ev'.orders) = Len(ev'.orders) /\ ~ev'.reset)
                     => dbRow'.grid_buy_count_in_group
                          >= dbRow.grid_buy_count_in_group]_vars

\* p runs as a standby that polls for the lock
PollingStandby(p) == up[p] /\ conn[p] = "ok" /\ ~standby_only[p] /\ ~is_leader[p]

\* C34: once the store has released the lock (the leader's connection dropped,
\* or the leader died) while a standby polls, the lock is acquired again and
\* a process becomes leader, unless that standby stops polling first.
C34_LeadershipHandoff ==
    \A p \in Procs :
        (lockHolder = None /\ PollingStandby(p))
          ~> (lockHolder # None \/ ~PollingStandby(p))

\* the connection of the leader has dropped, and the standby holds the lock
\* and is leader
C34_Witness ==
    \E p, q \in Procs :
        /\ p # q
        /\ up[p] /\ conn[p] = "dropped" /\ is_leader[p]
        /\ up[q] /\ is_leader[q] /\ lockHolder = q


\* C35: a tick that submits an order (accepted or raised) has read the position
\* with success in that same tick, and decides on what it read: a sell is for
\* the quantity the account held when the tick began, and under a position cap
\* of one order a first order that is a buy finds the account flat.  This holds
\* for every tick, the one in which a standby becomes leader and the first
\* acting tick after it included.
C35_PromotedReadsFirst ==
    [][(ev'.orders # <<>> \/ ev'.raised # "none")
         => /\ ev'.pos \in {"qty", "absent"}
            /\ is_leader'[ev'.proc]
            /\ ev'.orders # <<>>
                 => IF ev'.orders[1].side = "sell"
                      THEN ev'.orders[1].qty = livePos
                      ELSE cfg.max_position_qty > 0
                             => livePos + cfg.order_qty <= cfg.max_position_qty]_vars

\* the standby q started before the leader p first bought (its counters were
\* loaded before that buy was saved, or it could not buy under the daily cap of
\* one), took the lock in its loop after p's connection dropped, and has now
\* had its first order accepted, a buy
C35_Witness ==
    \E p, q \in Procs :
        /\ p # q
        /\ up[p] /\ is_leader[p] /\ conn[p] = "dropped" /\ submitHist[p] = "overtaken"
        /\ up[q] /\ is_leader[q] /\ conn[q] = "ok" /\ lockHolder = q
        /\ ev.proc = q /\ ev.pos = "absent"
        /\ Len(ev.orders) = 1 /\ ev.orders[1].side = "buy"
        /\ ctr[q].buys_today = 1 /\ ctr[p].buys_today = 1

RoDocs ==
    {RoEmptyDoc} \cup
    { [last_bar_ts |-> b, group_anchor_close |-> a, last_red_buy_close |-> a,
       buy_count_total |-> n, group_buy_count |-> n, strategy_owned_qty |-> n,
       buys_today_et |-> n, buys_today_date_et |-> 0]
        : b \in {None, 1}, a \in Prices, n \in 1..MaxPos }

RoInit ==
    /\ ro_up = FALSE
    /\ ro_state = RoEmptyDoc
    /\ ro_store \in RoDocs
    /\ ro_bar = None
    /\ ro_seen = {}
    /\ ro_ev = RoQuiet
    /\ EngineIdle
    /\ RiskIdle
    /\ HelpersIdle

\* group memory or owned shares to reset (the test of line 1245)
RoHasMemory(st) ==
    st.group_anchor_close # None \/ st.last_red_buy_close # None
      \/ st.strategy_owned_qty # 0

\* reset_group_state (lines 972-975)
reset_group_state(st) ==
    [st EXCEPT !.group_anchor_close = None, !.last_red_buy_close = None,
               !.group_buy_count = 0]

\* BOOT-TIME RECONCILE on a flat account, lines 1095-1133
RoBootReconcile(st) ==
    [reset_group_state(st) EXCEPT !.buy_count_total = 0, !.buys_today_et = 0,
                                  !.buys_today_date_et = today,
                                  !.strategy_owned_qty = 0]

\* the reset of the tick on a confirmed flat account, lines 1244-1259
RoTickReset(st) ==
    [reset_group_state(st) EXCEPT !.strategy_owned_qty = 0, !.buys_today_et = 0]

\* the ET day rollover, lines 1179-1184
RoRolled(st) ==
    IF st.buys_today_date_et # today
      THEN [st EXCEPT !.buys_today_date_et = today, !.buys_today_et = 0]
      ELSE st

\* main() up to the loop, lines 1020-1138: load the document, read the position
\* once (boot_pos_qty) and reconcile, read it again for POSITION_INIT.  A read
\* that raises ends the process.
RoBoot ==
    /\ ~ro_up
    /\ \E a1 \in PositionAnswers, a2 \in PositionAnswers :
         LET flat == a1.kind # "error" /\ a1.qty = 0
             st == IF flat THEN RoBootReconcile(ro_store) ELSE ro_store
         IN  IF a1.kind = "error"
               THEN /\ a2 = a1
                    /\ ro_ev' = [RoQuiet EXCEPT !.kind = "boot_failed"]
                    /\ UNCHANGED <<ro_up, ro_state, ro_store>>
               ELSE /\ ro_store' = st
                    /\ ro_up' = (a2.kind # "error")
                    /\ ro_state' = IF a2.kind # "error" THEN st ELSE RoEmptyDoc
                    /\ ro_ev' = [kind |-> "boot", bar |-> None,
                                 reset |-> flat /\ RoHasMemory(ro_store),
                                 zero_reads |-> IF flat THEN 1 ELSE 0]
    /\ UNCHANGED <<ro_bar, ro_seen, engineVars, riskVars, helperVars>>

\* One iteration of the loop, lines 1141-1540.  fail is the position read of
\* the iteration that raises (0: none): 1 the POSITION_CHANGE read (1187),
\* 2 pos_qty (1212), 3 avg_entry (1213), 4 the P/L read (1221), 5 and 6 the two
\* checks of confirm_flat_position (1241).  The call of line 1275 names
\* owned_qty, which main() never binds: the NameError is caught at line 1538,
\* so the SELL and BUY blocks, last_bar_ts = bar_ts and the persist never run.
RoTick ==
    /\ ro_up
    /\ \E clock \in {"error", "closed", "open"}, bars_ok \in BOOLEAN, fail \in 0..6 :
         LET rolled == RoRolled(ro_state)
             bar == IF bars_ok THEN ro_bar ELSE None
             replay == ro_state.last_bar_ts # None /\ bar <= ro_state.last_bar_ts
             flat == livePos = 0 /\ fail \notin {5, 6}
             done == IF flat THEN RoTickReset(rolled) ELSE rolled
         IN  IF clock # "open"
               THEN \* get_clock raises, or MARKET_CLOSED: lines 1142-1156
                    /\ bars_ok /\ fail = 0
                    /\ ro_ev' = [RoQuiet EXCEPT !.kind = "tick"]
                    /\ UNCHANGED <<ro_state, ro_seen>>
             ELSE IF fail = 1 \/ bar = None \/ replay
               THEN \* the tick ends before it takes the bar up: lines 1186-1207
                    /\ fail \in {0, 1} /\ (fail = 1 => bars_ok)
                    /\ ro_ev' = [RoQuiet EXCEPT !.kind = "tick"]
                    /\ ro_state' = rolled
                    /\ UNCHANGED ro_seen
             ELSE IF fail \in {2, 3, 4}
               THEN \* a position read raises: lines 1212-1221
                    /\ (fail = 3 => livePos > 0)
                    /\ ro_ev' = [RoQuiet EXCEPT !.kind = "tick"]
                    /\ ro_state' = rolled
                    /\ UNCHANGED ro_seen
             ELSE \* the flat check, then the NameError of line 1281
                  /\ (fail # 0 => livePos = 0)
                  /\ ro_ev' = [kind |-> "tick", bar |-> bar,
                               reset |-> flat /\ RoHasMemory(rolled),
                               zero_reads |-> IF flat THEN 2 ELSE 0]
                  /\ ro_state' = done
                  /\ ro_seen' = ro_seen \cup {bar}
    /\ UNCHANGED <<ro_up, ro_store, ro_bar, engineVars, riskVars, helperVars>>

\* the process dies (a restart loads the stored document again)
RoCrash ==
    /\ ro_up
    /\ ro_up' = FALSE
    /\ ro_state' = RoEmptyDoc
    /\ ro_seen' = {}
    /\ ro_ev' = RoQuiet
    /\ UNCHANGED <<ro_store, ro_bar, engineVars, riskVars, helperVars>>

\* a one-minute bar closes
NewBar ==
    /\ IF ro_bar = None THEN ro_bar' = 1 ELSE ro_bar < MaxBar /\ ro_bar' = ro_bar + 1
    /\ ro_ev' = RoQuiet
    /\ UNCHANGED <<ro_up, ro_state, ro_store, ro_seen, engineVars, riskVars, helperVars>>

\* one trading day of one instance of engine_readonly.py
RoNext ==
    \/ RoBoot
    \/ RoTick
    \/ RoCrash
    \/ NewBar
    \/ ExternalTrade

SpecRO == RoInit /\ [][RoNext]_vars

\* ------------------------------------------ engine_readonly.py: claims
\* C5: after every tick that has read the position and taken a bar up, the
\* strategy's owned quantity is at most the live position quantity.
C5_OwnedAtMostLive ==
    (ro_ev.kind = "tick" /\ ro_ev.bar # None) => ro_state.strategy_owned_qty <= livePos

\* C6: a tick that fetches a bar an earlier tick has already taken up changes
\* nothing of the engine's state.
C6_ReplayIsNoOp ==
    [][(ro_ev'.kind = "tick" /\ ro_ev'.bar \in ro_seen) => ro_state' = ro_state]_vars

\* C21: every tick that reads the position leaves the owned quantity at the
\* smaller of what it was and the live position quantity: clamped down when it
\* exceeded the live quantity, unchanged when the live quantity is larger.
C21_ClampToLive ==
    [][(ro_ev'.kind = "tick" /\ ro_ev'.bar # None)
         => ro_state'.strategy_owned_qty = Min(ro_state.strategy_owned_qty, livePos)]_vars

\* ------------------------------------ engine/risk.py as a pure function
\* every call of check_buy_allowed with counts and caps up to MaxCap
RiskInit ==
    /\ riskIn \in [kill_switch : BOOLEAN, buys_this_tick : 0..MaxCap,
                   max_buys_per_tick : 0..MaxCap, buys_today : 0..MaxCap,
                   max_buys_per_day : 0..MaxCap, order_qty : {1},
                   est_price : Prices, max_dollars_per_buy : 0..MaxCap,
                   current_pos_qty : 0..MaxPos, max_position_qty : 0..MaxCap,
                   in_trade_window : BOOLEAN]
    /\ riskOut = RiskDecision(FALSE, "PENDING")
    /\ EngineIdle
    /\ RoIdle
    /\ HelpersIdle

RiskCall ==
    /\ riskOut.reason = "PENDING"
    /\ riskOut' = check_buy_allowed(riskIn.kill_switch, riskIn.buys_this_tick,
                                    riskIn.max_buys_per_tick, riskIn.buys_today,
                                    riskIn.max_buys_per_day, riskIn.order_qty,
                                    riskIn.est_price, riskIn.max_dollars_per_buy,
                                    riskIn.current_pos_qty, riskIn.max_position_qty,
                                    riskIn.in_trade_window)
    /\ UNCHANGED <<riskIn, engineVars, roVars, helperVars>>

RiskNext == RiskCall

SpecRisk == RiskInit /\ [][RiskNext]_vars

\* the call has returned
RiskReturned == riskOut.reason \notin {"PENDING", "IDLE"}

\* the limits an input violates, as the gate's conditions state them
OverTick(in) == in.max_buys_per_tick > 0 /\ in.buys_this_tick >= in.max_buys_per_tick
OverDay(in) == in.max_buys_per_day > 0 /\ in.buys_today >= in.max_buys_per_day
OverPosition(in) ==
    in.max_position_qty > 0 /\ in.current_pos_qty + in.order_qty > in.max_position_qty
OverDollars(in) ==
    in.max_dollars_per_buy > 0 /\ in.est_price * in.order_qty > in.max_dollars_per_buy

\* C7: whenever check_buy_allowed is called with the kill switch engaged, the
\* decision is a denial whose reason is KILL_SWITCH, whatever other limits the
\* same input violates.
C7_KillSwitchFirst ==
    (RiskReturned /\ riskIn.kill_switch) => riskOut = RiskDecision(FALSE, "KILL_SWITCH")

\* a call with the kill switch engaged and the per-tick and per-day caps both
\* reached has returned
C7_Witness ==
    /\ RiskReturned
    /\ riskIn.kill_switch
    /\ OverTick(riskIn)
    /\ OverDay(riskIn)

\* the deny reason of the order kill switch, trading hours, daily cap, position
\* size, dollar cap, per-tick cap
FixedOrderReason(in) ==
    IF in.kill_switch THEN "KILL_SWITCH"
    ELSE IF ~in.in_trade_window THEN "OUTSIDE_TRADING_HOURS"
    ELSE IF OverDay(in) THEN "MAX_BUYS_PER_DAY"
    ELSE IF OverPosition(in) THEN "MAX_POSITION_QTY"
    ELSE IF OverDollars(in) THEN "MAX_DOLLARS_PER_BUY"
    ELSE IF OverTick(in) THEN "MAX_BUYS_PER_TICK"
    ELSE "OK"

ViolatedLimits(in) ==
    { l \in {"kill", "hours", "day", "position", "dollars", "tick"} :
        \/ l = "kill" /\ in.kill_switch
        \/ l = "hours" /\ ~in.in_trade_window
        \/ l = "day" /\ OverDay(in)
        \/ l = "position" /\ OverPosition(in)
        \/ l = "dollars" /\ OverDollars(in)
        \/ l = "tick" /\ OverTick(in) }

\* C8: for every call of check_buy_allowed whose input violates two or more
\* limits, the reported reason is the violated check that comes first in the
\* order kill switch, trading hours, daily cap, position size, dollar cap,
\* per-tick cap.
C8_FixedOrder ==
    (RiskReturned /\ Cardinality(ViolatedLimits(riskIn)) >= 2)
        => riskOut.reason = FixedOrderReason(riskIn)

\* C29: a call of check_buy_allowed made while the broker clock is outside the
\* configured trading-hours window is denied.
C29_TradingHoursGate == (RiskReturned /\ ~riskIn.in_trade_window) => ~riskOut.ok

\* ------------------------------------------- engine/grid.py on its own
\* The ladder as the engine drives it, one call of grid.py at a time, under every
\* setting load_config accepts within the ranges below: env_float and env_int
\* (config.py, lines 10-27) take any signed number, and nothing checks the sign
\* of GRID_STEP_START_USD, GRID_STEP_INCREMENT_USD or GRID_TIER_SIZE.
GridPrices == 91..100

GridConfigs ==
    [grid_step_start_usd : {0, 1, 2}, grid_step_increment_usd : {-1, 0, 1},
     grid_tier_size : {0, 2, 5}, sell_rise_usd : {2}]

GridInit ==
    /\ g_cfg \in GridConfigs
    /\ g_gs = GridState
    /\ g_ev = [kind |-> "start", price |-> None, n |-> 0, step |-> 0]
    /\ EngineIdle
    /\ RiskIdle
    /\ RoIdle
    /\ RetryIdle
    /\ FillIdle
    /\ MainIdle
    /\ TickIdle
    /\ WatchIdle

\* the BUY loop's use of grid.py (engine.py, lines 533-541 and 655-661):
\* should_buy_now, then on_buy_filled.  step is how far the rung moved down.
LadderBuy ==
    \E price \in GridPrices :
        /\ should_buy_now(price, g_gs, g_cfg)
        /\ g_gs.buy_count_in_group < MaxLadder
        /\ g_gs' = on_buy_filled(price, g_gs, g_cfg)
        /\ g_ev' = [kind |-> "buy", price |-> price,
                    n |-> g_gs.buy_count_in_group + 1,
                    step |-> IF g_gs.last_trigger_price = None THEN 0
                             ELSE g_gs.last_trigger_price - g_gs'.last_trigger_price]
        /\ UNCHANGED <<g_cfg, engineVars, riskVars, roVars, retryVars, fillVars, mainVars, tickVars, watchVars>>

\* the SELL logic's use of grid.py (engine.py, lines 478 and 506-526)
LadderSell ==
    \E price \in GridPrices :
        /\ should_sell_now(price, g_gs, g_cfg.sell_rise_usd)
        /\ g_gs' = reset_group(g_gs)
        /\ g_ev' = [kind |-> "sell", price |-> price, n |-> 0, step |-> 0]
        /\ UNCHANGED <<g_cfg, engineVars, riskVars, roVars, retryVars, fillVars, mainVars, tickVars, watchVars>>

\* a price that makes neither rule fire
LadderHold ==
    \E price \in GridPrices :
        /\ ~should_buy_now(price, g_gs, g_cfg)
        /\ ~should_sell_now(price, g_gs, g_cfg.sell_rise_usd)
        /\ g_ev' = [kind |-> "hold", price |-> price, n |-> 0, step |-> 0]
        /\ UNCHANGED <<g_cfg, g_gs, engineVars, riskVars, roVars, retryVars, fillVars, mainVars, tickVars, watchVars>>

GridNext ==
    \/ LadderBuy
    \/ LadderSell
    \/ LadderHold

SpecGrid == GridInit /\ [][GridNext]_vars

\* step(n) under the settings in force
GridStep(n) ==
    current_step_usd(g_cfg.grid_step_start_usd, g_cfg.grid_step_increment_usd,
                     g_cfg.grid_tier_size, n)

\* C11: within one accumulation episode, every successful buy after the first
\* leaves last_trigger_price strictly lower than it was before that buy, under
\* every accepted setting of base step, increment and tier size.
C11_RungStrictlyDecreases ==
    [][(g_ev'.kind = "buy" /\ g_gs.buy_count_in_group >= 1)
          => g_gs'.last_trigger_price < g_gs.last_trigger_price]_vars

\* C12: for every buy count n >= 0 and every accepted setting,
\* step(n) <= step(n + 1).
C12_StepMonotone == \A n \in 0..MaxLadder : GridStep(n) <= GridStep(n + 1)

\* Scenario A: base step 1.00, increment 1.00, tier size 5
ScenarioA ==
    [grid_step_start_usd |-> 1, grid_step_increment_usd |-> 1, grid_tier_size |-> 5,
     sell_rise_usd |-> 2]

\* the rungs of Scenario A from a first buy at 100.00: four steps of 1.00, then
\* five steps of 2.00
ScenarioARung(k) == <<100, 99, 98, 97, 96, 94, 92, 90, 88, 86>>[k]

InScenarioA == g_cfg = ScenarioA /\ g_gs.anchor_price = 100

\* C13: in Scenario A with the first buy at 100.00, buy number k leaves the rung
\* at 100, 99, 98, 97, 96, 94 (steps of 1.00 for buys 2..5, of 2.00 for the 6th)
\* and fires only at a price at or below that rung; under every setting with a
\* tier size of at least 1, buy number b >= 2 moves the rung down by
\* base + increment * floor((b - 1) / tierSize).
C13_TierBoundaries ==
    /\ (InScenarioA /\ g_gs.buy_count_in_group >= 1)
          => g_gs.last_trigger_price = ScenarioARung(g_gs.buy_count_in_group)
    /\ (InScenarioA /\ g_ev.kind = "buy" /\ g_ev.n >= 2)
          => g_ev.price <= ScenarioARung(g_ev.n)
    /\ (InScenarioA /\ g_ev.kind = "hold" /\ g_gs.buy_count_in_group >= 1)
          => g_ev.price > ScenarioARung(g_gs.buy_count_in_group + 1)
    /\ (g_ev.kind = "buy" /\ g_ev.n >= 2 /\ g_cfg.grid_tier_size >= 1)
          => g_ev.step = g_cfg.grid_step_start_usd
                           + g_cfg.grid_step_increment_usd
                               * ((g_ev.n - 1) \div g_cfg.grid_tier_size)

\* Scenario A has reached its 6th buy, the first of the second tier
C13_Witness ==
    /\ InScenarioA
    /\ g_ev.kind = "buy"
    /\ g_ev.n = 6
    /\ g_ev.step = 2

\* --------------------- engine_readonly.py: alpaca_call_with_retry, get_position
\* An error message is the set of the phrases str(e).lower() contains, among the
\* phrases the code looks for; {} is a message with none of them.
ErrorMessages ==
    { {"unauthorized"}, {"forbidden", "timeout"}, {"timeout"},
      {"internal server error"}, {"position does not exist"}, {} }

\* the tests of lines 456-466
IsTransient(msg) ==
    msg \cap {"internal server error", "service unavailable", "bad gateway",
              "gateway timeout", "timed out", "timeout", "connection reset",
              "temporarily unavailable"} # {}
IsFatal(msg) == msg \cap {"unauthorized", "forbidden", "invalid api key"} # {}

\* the wrapped calls: get_position passes tries=5 (line 851), the others leave
\* the default of 8 (line 446)
Tries(label) == IF label = "get_position" THEN 5 ELSE 8

\* created: the invocation made the broker create an order
Raises(msg) == [kind |-> "err", qty |-> 0, parses |-> FALSE, msg |-> msg, created |-> FALSE]
Returns(qty, parses) ==
    [kind |-> "ok", qty |-> qty, parses |-> parses, msg |-> {}, created |-> FALSE]

\* api.submit_order as submit_market_buy calls it (lines 909-913: symbol, qty,
\* side, type, time_in_force, and no client_order_id): the order is created and
\* returned, the request fails and no order is created, or the order is created
\* and the answer is lost on the way back (a timeout)
SubmitOutcomes ==
    { Raises(m) : m \in ErrorMessages \ {{"position does not exist"}} }
      \cup { [Raises({"timeout"}) EXCEPT !.created = TRUE],
             [Returns(0, TRUE) EXCEPT !.created = TRUE] }

\* what one invocation of fn() can do.  api.get_position returns a position
\* whose qty float() accepts (parses) or rejects, or raises; api.get_order
\* returns an order or raises.
FnOutcomes(label) ==
    IF label = "submit_buy" THEN SubmitOutcomes
    ELSE
    { Raises(m) : m \in IF label = "get_position" THEN ErrorMessages
                        ELSE ErrorMessages \ {{"position does not exist"}} }
      \cup (IF label = "get_position"
              THEN { Returns(q, TRUE) : q \in 1..MaxPos } \cup { Returns(0, FALSE) }
              ELSE { Returns(0, TRUE) })

\* a wrapper that looks for a transient phrase before it looks for a fatal one
retry_after_error_TransientFirst(msg, attempt) ==
    IF IsTransient(msg) THEN "sleep"
    ELSE IF IsFatal(msg) THEN "raise"
    ELSE IF attempt >= 3 THEN "raise"
    ELSE "sleep"

\* a wrapper that never gives up on an error it does not know
retry_after_error_NoGiveUp(msg, attempt) ==
    IF IsFatal(msg) THEN "raise" ELSE "sleep"

\* the except branch of the loop, lines 453-478
retry_after_error(msg, attempt) ==
    IF IsFatal(msg) THEN "raise"
    ELSE IF (~IsTransient(msg)) /\ attempt >= 3 THEN "raise"
    ELSE "sleep"

RetryInit ==
    /\ r_label \in {"get_position", "get_order", "submit_buy"}
    /\ r_tries = Tries(r_label)
    /\ r_hist = <<>>
    /\ r_result = [kind |-> "running", msg |-> {}]
    /\ EngineIdle
    /\ RiskIdle
    /\ RoIdle
    /\ GridIdle
    /\ FillIdle
    /\ MainIdle
    /\ TickIdle
    /\ WatchIdle

\* one pass of the for loop, lines 451-478, and the raise of line 480 when it
\* was the last
RetryAttempt ==
    /\ r_result.kind = "running"
    /\ Len(r_hist) < r_tries
    /\ \E out \in FnOutcomes(r_label) :
         LET attempt == Len(r_hist) + 1
         IN  /\ r_hist' = Append(r_hist, out)
             /\ r_result' =
                  IF out.kind = "ok" THEN [kind |-> "returned", msg |-> {}]
                  ELSE IF retry_after_error(out.msg, attempt) = "raise"
                    THEN [kind |-> "raised", msg |-> out.msg]
                  ELSE IF attempt = r_tries
                    THEN [kind |-> "raised", msg |-> {"failed after"}]
                  ELSE r_result
    /\ UNCHANGED <<r_label, r_tries, engineVars, riskVars, roVars, gridVars, fillVars, mainVars, tickVars, watchVars>>

RetryNext == RetryAttempt

SpecRetry == RetryInit /\ [][RetryNext]_vars

Last(seq) == seq[Len(seq)]

\* get_position, lines 838-857, on the wrapper's result: the position object,
\* None for "position does not exist", or the exception
get_position(result, hist) ==
    IF result.kind = "returned" THEN [kind |-> "position", obj |-> Last(hist)]
    ELSE IF "position does not exist" \in result.msg
      THEN [kind |-> "none", obj |-> Returns(0, FALSE)]
    ELSE [kind |-> "raised", obj |-> Returns(0, FALSE)]

\* get_position_qty, lines 860-867
get_position_qty(result, hist) ==
    LET pos == get_position(result, hist)
    IN  IF pos.kind = "raised" THEN [kind |-> "raised", qty |-> 0]
        ELSE IF pos.kind = "none" THEN [kind |-> "value", qty |-> 0]
        ELSE IF pos.obj.parses THEN [kind |-> "value", qty |-> pos.obj.qty]
        ELSE [kind |-> "value", qty |-> 0]

RetryDone == r_result.kind \in {"returned", "raised"}

\* C14: a position read reports quantity 0 only when the broker's last answer
\* was "position does not exist"; every other failure of the lookup, an
\* unparsable quantity included, is not turned into a quantity of 0.
C14_FlatOnlyWhenAbsent ==
    (r_label = "get_position" /\ RetryDone
       /\ get_position_qty(r_result, r_hist) = [kind |-> "value", qty |-> 0])
      => (Last(r_hist).kind = "err"
            /\ "position does not exist" \in Last(r_hist).msg)

\* C17: an invocation that fails with an auth or permission error (unauthorized,
\* forbidden, invalid API key) is the wrapper's last one, and the wrapper raises
\* that error; when it is the first failure the call was invoked exactly once,
\* also when the message matches a transient pattern.
C17_FatalNeverRetried ==
    \A i \in 1..Len(r_hist) :
        (r_hist[i].kind = "err"
           /\ r_hist[i].msg \cap {"unauthorized", "forbidden", "invalid api key"} # {})
          => (i = Len(r_hist) /\ r_result = [kind |-> "raised", msg |-> r_hist[i].msg])

\* the first invocation failed with "forbidden ... timeout", and the wrapper raised
C17_Witness ==
    /\ Len(r_hist) = 1
    /\ r_hist[1].kind = "err"
    /\ r_hist[1].msg = {"forbidden", "timeout"}
    /\ r_result.kind = "raised"

AllFailed == \A i \in 1..Len(r_hist) : r_hist[i].kind = "err"
AllTransient == \A i \in 1..Len(r_hist) : r_hist[i].kind = "err" /\ IsTransient(r_hist[i].msg)
AllUnknown ==
    \A i \in 1..Len(r_hist) :
        r_hist[i].kind = "err" /\ ~IsTransient(r_hist[i].msg) /\ ~IsFatal(r_hist[i].msg)

\* C18: when every invocation fails, the wrapper makes at most `tries`
\* invocations, at most 3 when no failure is transient or fatal, has ended once
\* it has made that many, and ends by raising, never by returning.
C18_RetriesBounded ==
    /\ Len(r_hist) <= r_tries
    /\ AllUnknown => Len(r_hist) <= 3
    /\ (AllTransient /\ Len(r_hist) = r_tries) => r_result.kind = "raised"
    /\ (AllUnknown /\ Len(r_hist) = 3) => r_result.kind = "raised"
    /\ (AllFailed /\ RetryDone) => r_result.kind = "raised"

\* `tries` transient failures in a row, and the wrapper has raised
C18_Witness ==
    /\ r_hist # <<>>
    /\ AllTransient
    /\ Len(r_hist) = r_tries
    /\ r_result.kind = "raised"

\* the orders the broker has created for the invocations made so far
OrdersCreated == Cardinality({i \in DOMAIN r_hist : r_hist[i].created})

\* C38: one call of submit_market_buy, however the wrapper retries it, creates
\* at most one order at the broker.
C38_OneOrderPerDecision == r_label = "submit_buy" => OrdersCreated <= 1

\* ------------------------------------ engine_readonly.py: wait_for_fill
\* what o.status can be: an Alpaca order status, in either case, or None
OrderStatuses ==
    {"new", "accepted", "partially_filled", "filled", "FILLED", "canceled",
     "rejected", "expired", "None"}

\* (o.status or "").lower(), line 927
LowerStatus(status) ==
    IF status = "None" THEN ""
    ELSE IF status = "FILLED" THEN "filled"
    ELSE status

\* a test that takes a partial fill for a final status
is_terminal_status_PartialCounts(status) ==
    LowerStatus(status) \in {"filled", "partially_filled", "canceled", "rejected", "expired"}

\* the test of line 928
is_terminal_status(status) ==
    LowerStatus(status) \in {"filled", "canceled", "rejected", "expired"}

\* wait_for_fill(order_id, timeout_sec, poll_sec) has just set start = time.time()
FillInit ==
    /\ w_timeout \in 0..MaxWait
    /\ w_now = 0
    /\ w_status = ""
    /\ w_result = [kind |-> "polling", status |-> ""]
    /\ EngineIdle
    /\ RiskIdle
    /\ RoIdle
    /\ GridIdle
    /\ RetryIdle
    /\ MainIdle
    /\ TickIdle
    /\ WatchIdle

\* one pass of the loop, lines 925-932: get_order (which takes took seconds and
\* may raise once its retries are used up), the two tests, the sleep
WaitPoll ==
    /\ w_result.kind = "polling"
    /\ \E took \in 0..1, slept \in 0..1, raises \in BOOLEAN, status \in OrderStatuses :
         IF raises
           THEN /\ took = 0 /\ slept = 0 /\ status = "new"
                /\ w_result' = [kind |-> "raised", status |-> ""]
                /\ UNCHANGED <<w_now, w_status>>
           ELSE /\ w_status' = status
                /\ IF is_terminal_status(status) \/ w_now + took >= w_timeout
                     THEN /\ slept = 0
                          /\ w_now' = w_now + took
                          /\ w_result' = [kind |-> "returned", status |-> status]
                     ELSE /\ w_now' = w_now + took + slept
                          /\ UNCHANGED w_result
    /\ UNCHANGED <<w_timeout, engineVars, riskVars, roVars, gridVars, retryVars, mainVars, tickVars, watchVars>>

FillNext == WaitPoll

SpecFill == FillInit /\ [][FillNext]_vars

\* C19: wait_for_fill returns as soon as it has seen a terminal status (filled,
\* canceled, rejected, expired), never returns a non-terminal status before
\* timeout_sec has elapsed, and returns the order it polled last.
C19_WaitForFill ==
    /\ w_result.kind = "polling"
         => LowerStatus(w_status) \notin {"filled", "canceled", "rejected", "expired"}
    /\ w_result.kind = "returned"
         => /\ w_result.status = w_status
            /\ \/ LowerStatus(w_status) \in {"filled", "canceled", "rejected", "expired"}
               \/ w_now >= w_timeout

\* a wait with a timeout of at least one second has ended on the timeout, with
\* the order still partially filled
C19_Witness ==
    /\ w_timeout >= 1
    /\ w_result = [kind |-> "returned", status |-> "partially_filled"]
    /\ w_now >= w_timeout


\* ------------------------- engine/engine.py: the SELL and BUY blocks of one tick
\* One iteration from the clock on (lines 419-686) as a function of what it
\* reads: every per-tick cap from 0 to MaxCap, the daily and the position cap off
\* or at MaxCap, a ladder of up to two buys below 100.00, the market open or
\* closed, a price of GridPrices or none, a position of 0..MaxPos or a read that
\* fails.
CapConfigs ==
    { [LiveConfig EXCEPT !.max_buys_per_tick = t, !.max_buys_per_day = d,
                         !.max_position_qty = q]
        : t \in 0..MaxCap, d \in {0, MaxCap}, q \in {0, MaxCap} }

\* the GridState after n buys, the first at 100.00 and each later one at its rung
RECURSIVE Ladder(_)
Ladder(n) ==
    IF n = 0 THEN GridState
    ELSE LET g == Ladder(n - 1)
         IN  on_buy_filled(IF n = 1 THEN 100 ELSE next_trigger_price(g, LiveConfig),
                           g, LiveConfig)

TickInit ==
    /\ fleet = {}
    /\ cfg \in CapConfigs
    /\ standby_only = [p \in Procs |-> FALSE]
    /\ EngineInit
    /\ t_in \in [gs : {Ladder(n) : n \in 0..2}, pos_qty : 0..MaxPos,
                  price : GridPrices \cup {None}, buys_today : 0..MaxCap, ldr : BOOLEAN,
                  market_is_open : BOOLEAN, pos_ok : BOOLEAN]
    /\ (~t_in.pos_ok) => t_in.pos_qty = 0
    /\ t_done = FALSE
    /\ t_out = TickLocals(t_in.gs, t_in.pos_qty, t_in.buys_today)
    /\ RiskIdle
    /\ RoIdle
    /\ GridIdle
    /\ RetryIdle
    /\ FillIdle
    /\ MainIdle
    /\ WatchIdle

\* the time.sleep an iteration ends with: lines 436 and 443 (no price, no
\* position), 474 (market closed), 686 (the end of the body) and 690 (the
\* handler of what the body raised)
tick_sleep(in, L) ==
    IF in.price = None \/ ~in.pos_ok THEN "poll_sec"
    ELSE IF ~in.market_is_open THEN "market_closed_sleep_sec"
    ELSE IF L.exc THEN "5" ELSE "poll_sec"

\* lines 419-686: the price, the position, the flat check, the market test, the
\* SELL block, the BUY loop
TickRun ==
    /\ ~t_done
    /\ LET g1 == IF FlatWithMemory(t_in.gs, t_in.pos_qty) THEN reset_group(t_in.gs)
                 ELSE t_in.gs
           L0 == TickLocals(g1, t_in.pos_qty, t_in.buys_today)
           ends == IF t_in.price = None \/ ~t_in.pos_ok
                     THEN {TickLocals(t_in.gs, t_in.pos_qty, t_in.buys_today)}
                   ELSE IF ~t_in.market_is_open THEN {L0}
                   ELSE UNION { BuyLoop(1, L1, t_in.ldr, t_in.price)
                                  : L1 \in SellStep(1, L0, t_in.ldr, t_in.price) }
       IN  \E L \in ends : t_out' = [L EXCEPT !.sleep = tick_sleep(t_in, L)]
    /\ t_done' = TRUE
    /\ UNCHANGED <<t_in, engineVars, riskVars, roVars, gridVars, retryVars, fillVars,
                   mainVars, watchVars>>

TickNext == TickRun

SpecTick == TickInit /\ [][TickNext]_vars

\* C26: one tick submits at most max_buys_per_tick buy orders, whatever the cap
\* (0 included) and however far the price has fallen; each buy has passed the
\* risk gate and the leadership test anew: none is submitted without the lock,
\* and the buys of the tick stop where the daily cap is reached.
C26_PerTickBuyBound ==
    t_done =>
      /\ NumBuys(t_out.orders) <= cfg.max_buys_per_tick
      /\ StandbyBlock(t_in.ldr) => t_out.orders = <<>>
      /\ (cfg.max_buys_per_day > 0 /\ NumBuys(t_out.orders) > 0)
            => t_in.buys_today + NumBuys(t_out.orders) <= cfg.max_buys_per_day

\* a tick that could have bought three rungs has bought two, its cap
C26_Witness ==
    /\ t_done
    /\ cfg.max_buys_per_tick = 2 /\ cfg.max_buys_per_day = 0 /\ cfg.max_position_qty = 0
    /\ t_in.gs = Ladder(1) /\ t_in.price <= 95 /\ t_in.pos_qty > 0
    /\ NumBuys(t_out.orders) = 2

\* C27: with a positive position cap, the position the tick works on plus every
\* buy it has submitted does not exceed the cap.
C27_PositionCap ==
    (t_done /\ cfg.max_position_qty > 0 /\ NumBuys(t_out.orders) > 0)
      => t_out.pos_qty + cfg.order_qty * NumBuys(t_out.orders) <= cfg.max_position_qty

\* C33: an iteration whose clock reports the market closed submits no order
\* and ends in the sleep of the market-closed interval.
C33_ClosedMarketIdles ==
    (t_done /\ ~t_in.market_is_open)
      => /\ t_out.orders = <<>>
         /\ t_out.sleep = "market_closed_sleep_sec"

\* the part of C33 about orders alone
C33_NoOrdersWhileClosed == (t_done /\ ~t_in.market_is_open) => t_out.orders = <<>>

\* ------------------------- engine/report_app.py: the watcher singleton
\* the pid of a process that is no longer alive
DeadPid == 0

\* what the read of lines 1604-1609 and _pid_is_alive make of the file: no
\* file (open raises) and a file without digits give old_pid None
LockLooks(f) ==
    IF f = NoLockFile \/ ~f.written THEN "unreadable"
    ELSE IF f.by = DeadPid THEN "stale"
    ELSE "alive"

\* the workers start together; the path is free, or holds the lock of a process
\* that died: with its pid, or empty (it died between the create and the write)
WatchInit ==
    /\ wl_file \in {NoLockFile, [by |-> DeadPid, written |-> TRUE],
                    [by |-> DeadPid, written |-> FALSE]}
    /\ wl_pc = [w \in Workers |-> "start"]
    /\ EngineIdle
    /\ RiskIdle
    /\ RoIdle
    /\ GridIdle
    /\ RetryIdle
    /\ FillIdle
    /\ MainIdle
    /\ TickIdle

WatchRest == <<engineVars, riskVars, roVars, gridVars, retryVars, fillVars, mainVars,
              tickVars>>

\* os.path.exists, line 1603
WatchExists(w) ==
    /\ wl_pc[w] = "start"
    /\ wl_pc' = [wl_pc EXCEPT ![w] = IF wl_file = NoLockFile THEN "create" ELSE "read"]
    /\ UNCHANGED <<wl_file, WatchRest>>

\* lines 1604-1631: read the pid and test it; a lock that looks alive returns
\* False
WatchRead(w) ==
    /\ wl_pc[w] = "read"
    /\ wl_pc' = [wl_pc EXCEPT ![w] = IF LockLooks(wl_file) = "alive" THEN "lost"
                                     ELSE "remove"]
    /\ UNCHANGED <<wl_file, WatchRest>>

\* os.remove, lines 1613-1618 and 1622-1627: it removes whatever file is at the
\* path now; when none is there it raises and the function returns False
WatchRemove(w) ==
    /\ wl_pc[w] = "remove"
    /\ IF wl_file = NoLockFile
         THEN wl_pc' = [wl_pc EXCEPT ![w] = "lost"] /\ UNCHANGED wl_file
         ELSE wl_pc' = [wl_pc EXCEPT ![w] = "create"] /\ wl_file' = NoLockFile
    /\ UNCHANGED WatchRest

\* os.open with O_CREAT | O_EXCL, line 1635; FileExistsError returns False
WatchCreate(w) ==
    /\ wl_pc[w] = "create"
    /\ IF wl_file # NoLockFile
         THEN wl_pc' = [wl_pc EXCEPT ![w] = "lost"] /\ UNCHANGED wl_file
         ELSE /\ wl_pc' = [wl_pc EXCEPT ![w] = "write"]
              /\ wl_file' = [by |-> w, written |-> FALSE]
    /\ UNCHANGED WatchRest

\* os.write on the descriptor and return True, lines 1636-1643: the pid goes
\* into the file w created, which may no longer be the one at the path
WatchWrite(w) ==
    /\ wl_pc[w] = "write"
    /\ wl_file' = IF wl_file.by = w THEN [wl_file EXCEPT !.written = TRUE] ELSE wl_file
    /\ wl_pc' = [wl_pc EXCEPT ![w] = "won"]
    /\ UNCHANGED WatchRest

WatchNext ==
    \/ \E w \in Workers : WatchExists(w)
    \/ \E w \in Workers : WatchRead(w)
    \/ \E w \in Workers : WatchRemove(w)
    \/ \E w \in Workers : WatchCreate(w)
    \/ \E w \in Workers : WatchWrite(w)

SpecWatch == WatchInit /\ [][WatchNext]_vars

\* the workers in which _acquire_watcher_lock has returned True
Winners == {w \in Workers : wl_pc[w] = "won"}

\* C36: _acquire_watcher_lock returns True in at most one of the workers that
\* call it, in every interleaving of their steps.
C36_WatcherSingleton == Cardinality(Winners) <= 1

\* --------------------------------------- engine/engine.py: main() as a loop
\* os.getenv(name, default) followed by .strip() (config.py, line 38) on the
\* values the model gives the environment
env_str(raw, default) ==
    LET v == IF raw = NoEnv THEN default ELSE raw
    IN  CASE v = " " -> ""
          [] v = " I_UNDERSTAND " -> "I_UNDERSTAND"
          [] OTHER -> v

\* config.py, lines 30-34
env_bool(raw, default) ==
    IF raw = NoEnv THEN default ELSE raw \in {"1", "true", "yes", "y", "on"}

\* the phrases is_live_endpoint looks for that (url or "").lower() contains
UrlPhrases(url) ==
    CASE url = "https://paper-api.alpaca.markets" -> {"paper-api", "api.alpaca.markets"}
      [] url \in {"https://api.alpaca.markets", "https://API.ALPACA.MARKETS"}
           -> {"api.alpaca.markets"}
      [] OTHER -> {}

\* engine.py, lines 79-83
is_live_endpoint(url) ==
    IF "paper-api" \in UrlPhrases(url) THEN FALSE
    ELSE "api.alpaca.markets" \in UrlPhrases(url)

\* load_config, lines 98-121: the credentials test and the fields main() gates on
load_config(env) ==
    LET key_id == env_str(env.key_id, "")
        secret == env_str(env.secret_key, "")
        url == env_str(env.base_url, "")
    IN  [raises |-> key_id = "" \/ secret = "",
         base_url |-> IF url = "" THEN "https://paper-api.alpaca.markets" ELSE url,
         dry_run |-> env_bool(env.dry_run, TRUE),
         live_trading_confirm |-> env_str(env.live_trading_confirm, "")]

\* a gate that compares the phrase without regard to letter case
live_trading_gate_AnyCase(c) ==
    (~c.dry_run) /\ is_live_endpoint(c.base_url)
      /\ c.live_trading_confirm \notin {"I_UNDERSTAND", "i_understand"}

\* the live-trading gate, lines 316-321: TRUE when it raises
live_trading_gate(c) ==
    (~c.dry_run) /\ is_live_endpoint(c.base_url)
      /\ c.live_trading_confirm # "I_UNDERSTAND"

\* the exceptions an iteration can raise: the three kinds of Exception the loop
\* meets, and KeyboardInterrupt or SystemExit (BaseException, the operator's stop)
TickErrors == {"broker", "store", "unexpected"}
TickRaises == TickErrors \cup {"interrupt"}

\* a handler written for the broker's errors alone
loop_except_BrokerOnly(exc) == IF exc = "broker" THEN "backoff" ELSE "dead"

\* "except Exception as e", lines 688-690: where an exception of the body goes
loop_except(exc) == IF exc \in TickErrors THEN "backoff" ELSE "dead"

MainInit ==
    /\ m_env \in [key_id : {NoEnv, "k"}, secret_key : {NoEnv, " ", "s"},
                   base_url : {NoEnv, "https://paper-api.alpaca.markets",
                               "https://api.alpaca.markets",
                               "https://API.ALPACA.MARKETS"},
                   dry_run : {NoEnv, "false", "true"},
                   live_trading_confirm : {NoEnv, "I_UNDERSTAND", " I_UNDERSTAND ",
                                           "i_understand"}]
    /\ m_pc = "start"
    /\ m_ticks = 0
    /\ m_orders = 0
    /\ m_exc = "none"
    /\ EngineIdle
    /\ RiskIdle
    /\ RoIdle
    /\ GridIdle
    /\ RetryIdle
    /\ FillIdle
    /\ TickIdle
    /\ WatchIdle

MainRest == <<engineVars, riskVars, roVars, gridVars, retryVars, fillVars, tickVars,
             watchVars>>

\* cfg = load_config(), line 312
LoadConfig ==
    /\ m_pc = "start"
    /\ m_pc' = IF load_config(m_env).raises THEN "aborted" ELSE "gate"
    /\ UNCHANGED <<m_env, m_ticks, m_orders, m_exc, MainRest>>

\* lines 313-321
LiveTradingGate ==
    /\ m_pc = "gate"
    /\ m_pc' = IF live_trading_gate(load_config(m_env)) THEN "aborted" ELSE "setup"
    /\ UNCHANGED <<m_env, m_ticks, m_orders, m_exc, MainRest>>

\* lines 323-401: the store, the lock, the state, the rollover save.  Nothing
\* catches what these raise.
Setup ==
    /\ m_pc = "setup"
    /\ \E raises \in BOOLEAN : m_pc' = IF raises THEN "aborted" ELSE "top"
    /\ UNCHANGED <<m_env, m_ticks, m_orders, m_exc, MainRest>>

\* "while True: try:", lines 404-405
TickBegins ==
    /\ m_pc = "top"
    /\ m_pc' = "tick"
    /\ m_ticks' = Min(MaxTick, m_ticks + 1)
    /\ UNCHANGED <<m_env, m_orders, m_exc, MainRest>>

\* the body, lines 406-686: it ends in a sleep (the last line, or a continue),
\* or raises; before either it may have submitted an order, unless DRY_RUN
TickRuns ==
    /\ m_pc = "tick"
    /\ \E submits \in BOOLEAN, exc \in TickRaises \cup {"none"} :
         /\ submits => ~load_config(m_env).dry_run
         /\ m_orders' = IF submits THEN Min(MaxTick, m_orders + 1) ELSE m_orders
         /\ m_exc' = exc
         /\ m_pc' = IF exc = "none" THEN "sleep" ELSE "raised"
    /\ UNCHANGED <<m_env, m_ticks, MainRest>>

\* lines 688-689
Handle ==
    /\ m_pc = "raised"
    /\ m_pc' = loop_except(m_exc)
    /\ UNCHANGED <<m_env, m_ticks, m_orders, m_exc, MainRest>>

\* time.sleep returns: poll_sec and its kin, or the 5 seconds of line 690
SleepEnds ==
    /\ m_pc \in {"sleep", "backoff"}
    /\ m_pc' = "top"
    /\ UNCHANGED <<m_env, m_ticks, m_orders, m_exc, MainRest>>

MainNext ==
    \/ LoadConfig
    \/ LiveTradingGate
    \/ Setup
    \/ TickBegins
    \/ TickRuns
    \/ Handle
    \/ SleepEnds

SpecMain == MainInit /\ [][MainNext]_vars

\* every call and every sleep of main() returns
SpecMainLive == SpecMain /\ WF_vars(MainNext)

\* C23: an exception raised inside an iteration (a broker failure, a state-store
\* failure, an unexpected error) never ends the loop: it is caught, the backoff
\* sleep follows, and a next iteration begins.
C23_LoopGoesOn == (m_pc = "raised" /\ m_exc \in TickErrors) ~> (m_pc = "tick")

\* an iteration has begun after the state store failed in the one before
C23_Witness == m_pc = "tick" /\ m_exc = "store" /\ m_ticks >= 2

\* the credentials are missing
CredentialsMissing == m_env.key_id = NoEnv \/ m_env.secret_key = NoEnv

\* the endpoint is the real-money one and DRY_RUN is off
LiveAndNotDry ==
    /\ m_env.base_url \in {"https://api.alpaca.markets", "https://API.ALPACA.MARKETS"}
    /\ m_env.dry_run = "false"

\* main() has stopped before the loop, or has not come to the loop yet, and has
\* run no iteration and submitted no order
NeverLoops == m_pc \in {"start", "gate", "aborted"} /\ m_ticks = 0 /\ m_orders = 0

\* C25 (as stated): with the credentials missing, or with the live endpoint,
\* DRY_RUN off and a LIVE_TRADING_CONFIRM that is not exactly I_UNDERSTAND, the
\* process stops at startup: no iteration, no order.
C25_FatalStartupAborts ==
    (CredentialsMissing \/ (LiveAndNotDry /\ m_env.live_trading_confirm # "I_UNDERSTAND"))
      => NeverLoops

\* C25 (amended): the same, the phrase being compared after the whitespace
\* around it is removed.
C25_FatalStartupAbortsTrimmed ==
    (CredentialsMissing
       \/ (LiveAndNotDry /\ env_str(m_env.live_trading_confirm, "") # "I_UNDERSTAND"))
      => NeverLoops

\* the gate has stopped a live start whose phrase was in the wrong letter case
C25_Witness ==
    /\ m_pc = "aborted"
    /\ m_env.key_id = "k" /\ m_env.secret_key = "s"
    /\ LiveAndNotDry
    /\ m_env.live_trading_confirm = "i_understand"

====
